---- MODULE Spec2Model ----
(***************************************************************************)
(* smfaman: sync planner, download executor, CDN adapters and the two-tier *)
(* cache store, modelled from cmd/sync.go, pkgs/cache and                  *)
(* pkgs/frontend_mgr/requests.go.                                          *)
(*                                                                         *)
(* Strings that the code inspects character by character (paths, filter    *)
(* patterns, names) are sequences of one-character strings, so that        *)
(* strings.HasPrefix, strings.TrimPrefix and filepath.Join are computed    *)
(* and not assumed.                                                        *)
(***************************************************************************)
EXTENDS Integers, Sequences, FiniteSets, Bags, TLC

VARIABLES
    goos,        \* the build's target OS: decides filepath.Separator
    \* ---- filterFiles applied to drawn inputs
    filterIn,    \* [files, patterns]: the adapter's list and the entry's Files
    filterOut,   \* the list buildDownloadTasks goes on with
    filterDone,
    \* ---- collectJsdelivrFiles applied to drawn inputs
    treeIn,      \* []JsdelivrFile, the response's file tree
    treeOut,     \* []CDNFile
    treeDone,
    \* ---- sync: manifest, disk, planner and executor
    config,      \* the loaded FrontendConfig
    syncForce,   \* --force
    syncDryRun,  \* --dry-run
    fsFiles,     \* regular files on disk: path -> content
    fsDirs,      \* directories on disk
    pkgTier,     \* ~/.smfaman-cache/packages: file path -> bytes
    pc,          \* where the sync command is
    plan,        \* what buildDownloadTasks returned: [tasks, err, fetched]
    m,           \* the syncModel held by the Bubble Tea program
    msgs,        \* messages not yet handed to Update (a bag)
    dl,          \* downloadNext commands running in their goroutines (a bag)
    started,     \* task indices in the order their GET was issued, this run
    okDownloads, \* task indices whose downloadFile returned nil, this run
    failed,      \* task index -> the error downloadFile returned, this run
    keys,        \* ctrl+c presses so far, this run
    outcome,     \* what runSync returned and printed
    runs,        \* sync invocations so far
    lastRun,     \* the previous invocation: [force, full, count]
    now,         \* the wall clock, in units of 12 hours
    mgr,         \* frontend_mgr.CacheManager: [enabled, ttl, packageCache]
    metadataDir, \* ~/.smfaman-cache/metadata: file path -> content of the file
    lastCall,    \* the latest adapter call and what it returned
    lastGet,     \* the latest direct Manager.Get and what it returned
    lastSet,     \* cache key -> the latest Manager.Set that wrote it
    ops,         \* direct calls of the manager's API so far
    tampers,     \* records damaged from outside so far
    lastSweep,   \* the latest Manager.ClearExpired and what it returned
    lastPkg,     \* [stored, get]: what SetPackageFile has stored since the
                 \* tier was last cleared, and the latest GetPackageFile
    sortIn,      \* SortVersions: the version strings handed in
    sortOut,     \* SortVersions: the slice returned
    sortDone,    \* SortVersions has returned
    cmd,         \* the latest add or upgrade command and what it did
    listIn,      \* an adapter's answer: [cdn, files, patterns]
    listOut,     \* [files, tasks]: the file list and the tasks made of it
    listDone,    \* the list was converted and planned
    keyIn,       \* [set, get]: the components of two cache keys
    keyOut,      \* [setKey, getKey, got]: the keys and what Get returned
    keyDone,     \* the value was stored under one key and read under the other
    cacheHome,   \* what the home directory lets the cache do
    CacheEnabled, \* frontend_mgr.CacheEnabled
    mgrNil,      \* frontend_mgr.CacheManager is a nil pointer
    crashed,     \* the process ended in a panic
    procs,       \* two processes on one cache root: where each is in its call
    writes       \* the entries the Sets of the processes have made so far

varsFilter == <<filterIn, filterOut, filterDone>>
varsTree   == <<treeIn, treeOut, treeDone>>
varsList   == <<listIn, listOut, listDone>>
varsKey    == <<keyIn, keyOut, keyDone>>
varsBoot   == <<cacheHome, CacheEnabled, mgrNil, crashed>>
varsShare  == <<procs, writes>>
varsPure   == <<sortIn, sortOut, sortDone, cmd, varsList, varsKey, varsBoot,
                varsShare>>
varsDisk   == <<fsFiles, fsDirs, pkgTier>>
varsExec   == <<m, msgs, dl, started, okDownloads, failed, keys>>
varsSync   == <<config, syncForce, syncDryRun, varsDisk, pc, plan, varsExec,
                outcome, runs, lastRun>>
varsCache  == <<now, mgr, metadataDir, lastCall, lastGet, lastSet, ops, tampers,
                lastSweep, lastPkg>>
vars       == <<goos, varsFilter, varsTree, varsPure, varsSync, varsCache>>

(***************************************************************************)
(* Bounds of the model.                                                    *)
(***************************************************************************)
MaxFiles    == 3   \* length of an adapter file list handed to filterFiles
MaxPatterns == 2   \* length of a manifest entry's Files list
MaxDepth    == 2   \* directory nesting of a jsDelivr tree
MaxKids     == 2   \* children of one directory node
MaxRuns     == 2   \* sync invocations in one behaviour
MaxKeys     == 1   \* ctrl+c presses during one run
MaxTime     == 4   \* the clock stops after this many units
MaxOps      == 3   \* direct calls of the manager's API in one behaviour
MaxToggles  == 1   \* SetCacheEnabled calls in one behaviour
MaxTampers  == 1   \* records damaged from outside in one behaviour
MaxVersions == 4   \* strings handed to SortVersions
MaxListed   == 2   \* entries of an adapter's answer handed to the planner
MaxCalls    == 3   \* calls of the manager the two processes make together

GOOS == {"unix", "windows"}

(***************************************************************************)
(* Strings                                                                 *)
(***************************************************************************)
\* strings.HasPrefix
HasPrefix(s, prefix) ==
    Len(prefix) <= Len(s) /\ SubSeq(s, 1, Len(prefix)) = prefix

\* strings.TrimPrefix
TrimPrefix(s, prefix) ==
    IF HasPrefix(s, prefix) THEN SubSeq(s, Len(prefix) + 1, Len(s)) ELSE s

\* filepath.Separator of the build
Separator == IF goos = "windows" THEN "\\" ELSE "/"

\* os.IsPathSeparator: Windows takes both slashes
IsPathSeparator(c) == c = "/" \/ (goos = "windows" /\ c = "\\")

\* the path elements between separators, empty ones included
RECURSIVE splitFrom(_, _, _)
splitFrom(s, i, cur) ==
    IF i > Len(s) THEN <<cur>>
    ELSE IF IsPathSeparator(s[i])
         THEN <<cur>> \o splitFrom(s, i + 1, <<>>)
         ELSE splitFrom(s, i + 1, Append(cur, s[i]))

SplitPath(s) == splitFrom(s, 1, <<>>)

\* filepath.Clean's treatment of the elements: "" and "." are dropped, ".."
\* removes the element before it (at the root it is dropped, at the start of
\* a relative path it is kept)
RECURSIVE cleanSegs(_, _, _, _)
cleanSegs(segs, i, rooted, out) ==
    IF i > Len(segs) THEN out
    ELSE LET e == segs[i] IN
         IF e = <<>> \/ e = <<".">> THEN cleanSegs(segs, i + 1, rooted, out)
         ELSE IF e = <<".", ".">>
              THEN IF Len(out) > 0 /\ out[Len(out)] # <<".", ".">>
                   THEN cleanSegs(segs, i + 1, rooted, SubSeq(out, 1, Len(out) - 1))
                   ELSE IF rooted THEN cleanSegs(segs, i + 1, rooted, out)
                        ELSE cleanSegs(segs, i + 1, rooted, Append(out, e))
              ELSE cleanSegs(segs, i + 1, rooted, Append(out, e))

RECURSIVE joinSegs(_, _)
joinSegs(segs, i) ==
    IF i > Len(segs) THEN <<>>
    ELSE (IF i > 1 THEN <<Separator>> ELSE <<>>) \o segs[i]
         \o joinSegs(segs, i + 1)

\* filepath.Clean
Clean(s) ==
    LET rooted == Len(s) > 0 /\ IsPathSeparator(s[1])
        segs   == cleanSegs(SplitPath(s), 1, rooted, <<>>)
        body   == joinSegs(segs, 1)
    IN  IF rooted THEN <<Separator>> \o body
        ELSE IF body = <<>> THEN <<".">> ELSE body

\* filepath.Join of two elements: empty elements are ignored, the rest are
\* joined by the OS separator and cleaned; all empty gives ""
filepathJoin(a, b) ==
    IF a = <<>> /\ b = <<>> THEN <<>>
    ELSE IF a = <<>> THEN Clean(b)
    ELSE IF b = <<>> THEN Clean(a)
    ELSE Clean(a \o <<Separator>> \o b)

(***************************************************************************)
(* cmd/sync.go: filterFiles                                                *)
(***************************************************************************)
CDNFile(path, url, size) == [Path |-> path, URL |-> url, Size |-> size]

\* the inner loop: the first pattern that equals the path or is a prefix of it
RECURSIVE matchesFrom(_, _, _)
matchesFrom(path, patterns, j) ==
    IF j > Len(patterns) THEN FALSE
    ELSE IF path = patterns[j] \/ HasPrefix(path, patterns[j]) THEN TRUE
         ELSE matchesFrom(path, patterns, j + 1)

RECURSIVE filterFrom(_, _, _)
filterFrom(files, patterns, i) ==
    IF i > Len(files) THEN <<>>
    ELSE (IF matchesFrom(files[i].Path, patterns, 1) THEN <<files[i]>> ELSE <<>>)
         \o filterFrom(files, patterns, i + 1)

\* variant: only the exact comparison, the prefix test dropped
filterFilesExact(files, patterns) ==
    SelectSeq(files, LAMBDA f : \E j \in DOMAIN patterns : f.Path = patterns[j])

filterFiles(files, patterns) == filterFrom(files, patterns, 1)

\* buildDownloadTasks: "Filter files if specific files are configured"
selectFiles(files, libFiles) ==
    IF Len(libFiles) > 0 THEN filterFiles(files, libFiles) ELSE files

LibJ == <<"j">>
Ver1 == <<"1">>

(***************************************************************************)
(* cmd/sync.go: collectJsdelivrFiles                                       *)
(***************************************************************************)
JsdelivrFile(type, name, size, files) ==
    [Type |-> type, Name |-> name, Size |-> size, Files |-> files]

\* fmt.Sprintf("https://cdn.jsdelivr.net/npm/%s@%s/%s", libName, version, path)
JsdelivrURL(libName, version, path) ==
    <<"https://cdn.jsdelivr.net/npm/">> \o libName \o <<"@">> \o version
        \o <<"/">> \o path

RECURSIVE collectFrom(_, _, _, _, _)
collectFrom(libName, version, jsFiles, basePath, i) ==
    IF i > Len(jsFiles) THEN <<>>
    ELSE LET f    == jsFiles[i]
             path == filepathJoin(basePath, f.Name)
         IN  (IF f.Type = "file"
              THEN <<CDNFile(path, JsdelivrURL(libName, version, path), f.Size)>>
              ELSE IF f.Type = "directory" /\ Len(f.Files) > 0
                   THEN collectFrom(libName, version, f.Files, path, 1)
                   ELSE <<>>)
             \o collectFrom(libName, version, jsFiles, basePath, i + 1)

collectJsdelivrFiles(libName, version, jsFiles, basePath) ==
    collectFrom(libName, version, jsFiles, basePath, 1)

(***************************************************************************)
(* pkgs/frontend_config: the manifest                                      *)
(***************************************************************************)
CDNUnpkg    == "unpkg"
CDNCdnjs    == "cdnjs"
CDNJsdelivr == "jsdelivr"

\* a nil error; an error is the sequence of its message parts
NoErr == <<>>

\* strings.ReplaceAll(pathTemplate, "{library_name}", libraryName); the
\* placeholder is one element of the template
RECURSIVE replaceFrom(_, _, _)
replaceFrom(template, libraryName, i) ==
    IF i > Len(template) THEN <<>>
    ELSE (IF template[i] = "{library_name}" THEN libraryName ELSE <<template[i]>>)
         \o replaceFrom(template, libraryName, i + 1)

\* the working directory of the process
Getwd == <<Separator, "w">>

\* filepath.Abs: a rooted path is cleaned, any other is joined to the
\* working directory
filepathAbs(path) ==
    IF Len(path) > 0 /\ IsPathSeparator(path[1]) THEN Clean(path)
    ELSE filepathJoin(Getwd, path)

\* FrontendConfig.GetLibraryDestination
GetLibraryDestination(fc, libraryName, libConfig) ==
    LET pathTemplate == IF libConfig.OutputPath # <<>> THEN libConfig.OutputPath
                        ELSE fc.Destination
    IN  IF pathTemplate = <<>>
        THEN [path |-> <<>>, err |-> <<"no destination path configured">>]
        ELSE [path |-> filepathAbs(replaceFrom(pathTemplate, libraryName, 1)),
              err  |-> NoErr]

\* FrontendConfig.GetLibraryCDN
GetLibraryCDN(fc, libConfig) ==
    IF libConfig.CDN # "" THEN libConfig.CDN ELSE fc.CDN

(***************************************************************************)
(* The three providers' answers, as the Fetch functions of                 *)
(* pkgs/frontend_mgr return them (cache or network).  Library j is         *)
(* published on all three in versions 1 and 2 with the same files, library *)
(* b on cdnjs only; any other request                                      *)
(* fails with the provider's error status.                                 *)
(***************************************************************************)
LibB == <<"b">>
Ver2 == <<"2">>

UnpkgFile(path, size, type) == [Path |-> path, Size |-> size, Type |-> type]

\* UnpkgMetaResponse.Files: one entry typed "file", one typed by MIME type
FetchUnpkgMetaResult(libraryName, version) ==
    IF libraryName = LibJ /\ version \in {Ver1, Ver2}
    THEN [err |-> NoErr,
          Files |-> <<UnpkgFile(<<"/", "d", "/", "a">>, 1, "file"),
                      UnpkgFile(<<"/", "d", "/", "b">>, 2, "text/javascript")>>]
    ELSE [err |-> <<"UNPKG API returned status 404">>, Files |-> <<>>]

\* CdnjsVersionResponse.Files
FetchCdnjsVersionResult(libraryName, version) ==
    IF libraryName = LibJ /\ version \in {Ver1, Ver2}
    THEN [err |-> NoErr, Files |-> << <<"d", "/", "a">>, <<"c">> >>]
    ELSE IF libraryName = LibB /\ version = Ver1
    THEN [err |-> NoErr, Files |-> << <<"c">> >>]
    ELSE [err |-> <<"CDNJS API returned status 404">>, Files |-> <<>>]

\* JsdelivrPackageResponse.Files
FetchJsdelivrPackageResult(libraryName, version) ==
    IF libraryName = LibJ /\ version \in {Ver1, Ver2}
    THEN [err |-> NoErr,
          Files |-> <<JsdelivrFile("directory", <<"d">>, 0,
                          <<JsdelivrFile("file", <<"a">>, 1, <<>>)>>),
                      JsdelivrFile("file", <<"c">>, 3, <<>>)>>]
    ELSE [err |-> <<"jsDelivr API returned status 404">>, Files |-> <<>>]

(***************************************************************************)
(* cmd/sync.go: fetchFileList                                              *)
(***************************************************************************)
\* fmt.Sprintf("https://unpkg.com/%s@%s%s", libName, version, file.Path)
UnpkgURL(libName, version, path) ==
    <<"https://unpkg.com/">> \o libName \o <<"@">> \o version \o path

\* fmt.Sprintf("https://cdnjs.cloudflare.com/ajax/libs/%s/%s/%s", ...)
CdnjsURL(libName, version, file) ==
    <<"https://cdnjs.cloudflare.com/ajax/libs/">> \o libName \o <<"/">>
        \o version \o <<"/">> \o file

RECURSIVE unpkgFilesFrom(_, _, _, _)
unpkgFilesFrom(libName, version, metaFiles, i) ==
    IF i > Len(metaFiles) THEN <<>>
    ELSE LET file == metaFiles[i] IN
         (IF file.Type = "file"
          THEN <<CDNFile(TrimPrefix(file.Path, <<"/">>),
                         UnpkgURL(libName, version, file.Path), file.Size)>>
          ELSE <<>>)
         \o unpkgFilesFrom(libName, version, metaFiles, i + 1)

\* the switch's loops over the Files of the adapter's answer
filesFrom(libName, version, cdn, respFiles) ==
    IF cdn = CDNUnpkg THEN unpkgFilesFrom(libName, version, respFiles, 1)
    ELSE IF cdn = CDNCdnjs
    THEN [i \in DOMAIN respFiles |->
             CDNFile(respFiles[i], CdnjsURL(libName, version, respFiles[i]), 0)]
    ELSE collectJsdelivrFiles(libName, version, respFiles, <<>>)

\* [files, err, fetched]: fetched tells whether a Fetch function was called
fetchFileList(libName, version, cdn) ==
    IF cdn = CDNUnpkg
    THEN LET meta == FetchUnpkgMetaResult(libName, version) IN
         IF meta.err # NoErr
         THEN [files |-> <<>>, err |-> meta.err, fetched |-> TRUE]
         ELSE [files |-> filesFrom(libName, version, cdn, meta.Files),
               err |-> NoErr, fetched |-> TRUE]
    ELSE IF cdn = CDNCdnjs
    THEN LET resp == FetchCdnjsVersionResult(libName, version) IN
         IF resp.err # NoErr
         THEN [files |-> <<>>, err |-> resp.err, fetched |-> TRUE]
         ELSE [files |-> filesFrom(libName, version, cdn, resp.Files),
               err |-> NoErr, fetched |-> TRUE]
    ELSE IF cdn = CDNJsdelivr
    THEN LET resp == FetchJsdelivrPackageResult(libName, version) IN
         IF resp.err # NoErr
         THEN [files |-> <<>>, err |-> resp.err, fetched |-> TRUE]
         ELSE [files |-> filesFrom(libName, version, cdn, resp.Files),
               err |-> NoErr, fetched |-> TRUE]
    ELSE [files |-> <<>>, err |-> <<"unsupported CDN">>, fetched |-> FALSE]

(***************************************************************************)
(* The local disk                                                          *)
(***************************************************************************)
\* the path itself and every directory above it, root first
RECURSIVE prefixPaths(_, _)
prefixPaths(segs, n) ==
    IF n = 0 THEN {<<Separator>>}
    ELSE {<<Separator>> \o joinSegs(SubSeq(segs, 1, n), 1)}
         \cup prefixPaths(segs, n - 1)

PathSegs(path) == cleanSegs(SplitPath(path), 1, TRUE, <<>>)

SelfAndAncestors(path) == prefixPaths(PathSegs(path), Len(PathSegs(path)))

\* filepath.Dir of a cleaned rooted path
filepathDir(path) ==
    LET segs == PathSegs(path) IN
    IF Len(segs) <= 1 THEN <<Separator>>
    ELSE <<Separator>> \o joinSegs(SubSeq(segs, 1, Len(segs) - 1), 1)

\* os.Stat(path) returned a nil error
osStatOK(path) == path \in DOMAIN fsFiles \/ path \in fsDirs

\* os.MkdirAll(dir) succeeds unless a regular file is in the way
osMkdirAllOK(dir) == SelfAndAncestors(dir) \cap DOMAIN fsFiles = {}

\* os.Create(path) succeeds unless path is a directory or its parent is none
osCreateOK(dirs, path) == path \notin dirs /\ filepathDir(path) \in dirs

(***************************************************************************)
(* cmd/sync.go: buildDownloadTasks                                         *)
(***************************************************************************)
DownloadTask(libName, version, cdn, filePath, destPath, url, size) ==
    [LibraryName |-> libName, Version |-> version, CDN |-> cdn,
     FilePath |-> filePath, DestPath |-> destPath, URL |-> url, Size |-> size]

\* localPath := filepath.Join(destPath, file.Path)
localPath(destPath, filePath) == filepathJoin(destPath, filePath)

\* variant: --force is not consulted
skipExistingAlways(path) == osStatOK(path)

\* "Skip if file exists and not forcing"
skipExisting(path) == ~syncForce /\ osStatOK(path)

\* the inner loop over one library's files
RECURSIVE tasksFrom(_, _, _, _, _, _)
tasksFrom(libName, libConfig, cdn, destPath, files, i) ==
    IF i > Len(files) THEN <<>>
    ELSE LET file == files[i]
             lp   == localPath(destPath, file.Path)
         IN  (IF skipExisting(lp) THEN <<>>
              ELSE <<DownloadTask(libName, libConfig.Version, cdn, file.Path, lp,
                                  file.URL, file.Size)>>)
             \o tasksFrom(libName, libConfig, cdn, destPath, files, i + 1)

\* the loop over config.Libraries, in the order the map iteration yields
RECURSIVE buildFrom(_, _, _, _, _)
buildFrom(fc, order, i, tasks, fetched) ==
    IF i > Len(order) THEN [tasks |-> tasks, err |-> NoErr, fetched |-> fetched]
    ELSE LET libName   == order[i]
             libConfig == fc.Libraries[libName]
             cdn0      == GetLibraryCDN(fc, libConfig)
             cdn       == IF cdn0 = "" THEN CDNUnpkg ELSE cdn0
             dest      == GetLibraryDestination(fc, libName, libConfig)
         IN  IF dest.err # NoErr
             THEN [tasks |-> <<>>, err |-> <<"failed to get destination">>,
                   fetched |-> fetched]
             ELSE LET fl  == fetchFileList(libName, libConfig.Version, cdn)
                      got == IF fl.fetched THEN Append(fetched, libName) ELSE fetched
                  IN  IF fl.err # NoErr
                      THEN [tasks |-> <<>>, err |-> <<"failed to fetch files">>,
                            fetched |-> got]
                      ELSE buildFrom(fc, order, i + 1,
                               tasks \o tasksFrom(libName, libConfig, cdn, dest.path,
                                           selectFiles(fl.files, libConfig.Files), 1),
                               got)

buildDownloadTasks(fc, order) == buildFrom(fc, order, 1, <<>>, <<>>)

\* the orders in which a Go map of these libraries can be iterated
MapOrders(libs) ==
    {o \in [1..Cardinality(libs) -> libs] :
        \A i, j \in 1..Cardinality(libs) : i # j => o[i] # o[j]}

(***************************************************************************)
(* cmd/sync.go: the Bubble Tea model of the executor.  A command runs in   *)
(* its own goroutine and its message reaches Update in no fixed order      *)
(* with the others; a closure that only builds a message is kept as that   *)
(* message, a downloadNext command as an entry of dl while it works.       *)
(***************************************************************************)
Bag1(e) == SetToBag({e})

\* a nil *DownloadTask; a pointer to a task is <<task>>
NilTask == <<>>

\* newSyncModel
newSyncModel(tasks) ==
    [tasks |-> tasks, currentIndex |-> 0, currentTask |-> NilTask,
     progress |-> "zero", completed |-> 0, err |-> NoErr, downloading |-> FALSE]

allCompleteMsg == [type |-> "allComplete"]
tickMsg        == [type |-> "tick"]
QuitMsg        == [type |-> "quit"]
downloadStartMsg(task)     == [type |-> "downloadStart", task |-> task]
downloadCompleteMsg(index) == [type |-> "downloadComplete", index |-> index]
downloadErrorMsg(err)      == [type |-> "downloadError", err |-> err]

\* syncModel.startDownload: the message its closure returns
startDownload(sm) ==
    IF sm.currentIndex >= Len(sm.tasks) THEN allCompleteMsg
    ELSE downloadStartMsg(sm.tasks[sm.currentIndex + 1])

\* syncModel.downloadNext: the command, holding the index it captured
downloadNext(sm) == [index |-> sm.currentIndex, phase |-> "queued"]

\* what Update returns: the model, the messages of the closures it returned
\* and the download commands it returned
Ret(sm, newMsgs, newDl) == [m |-> sm, msgs |-> newMsgs, dl |-> newDl]

\* case tea.KeyMsg
UpdateKeyMsg(sm, key) ==
    IF key = "ctrl+c" THEN Ret(sm, Bag1(QuitMsg), EmptyBag)
    ELSE Ret(sm, EmptyBag, EmptyBag)

\* case downloadStartMsg
UpdateDownloadStartMsg(sm, msg) ==
    LET sm2 == [sm EXCEPT !.currentTask = <<msg.task>>, !.progress = "zero",
                          !.downloading = TRUE]
    IN  Ret(sm2, Bag1(tickMsg), Bag1(downloadNext(sm2)))

\* variant: every tick starts the transfer again
UpdateTickRestarts(sm) ==
    IF sm.downloading /\ sm.currentTask # NilTask
    THEN Ret([sm EXCEPT !.progress = "below1"], Bag1(tickMsg), Bag1(downloadNext(sm)))
    ELSE Ret(sm, EmptyBag, EmptyBag)

\* case tickMsg
UpdateTickMsg(sm) ==
    IF sm.downloading /\ sm.currentTask # NilTask
    THEN Ret([sm EXCEPT !.progress = "below1"], Bag1(tickMsg), EmptyBag)
    ELSE Ret(sm, EmptyBag, EmptyBag)

\* case downloadCompleteMsg
UpdateDownloadCompleteMsg(sm) ==
    LET sm2 == [sm EXCEPT !.downloading = FALSE, !.progress = "one",
                          !.completed = @ + 1, !.currentIndex = @ + 1]
    IN  IF sm2.currentIndex >= Len(sm2.tasks)
        THEN Ret(sm2, Bag1(allCompleteMsg), EmptyBag)
        ELSE Ret(sm2, Bag1(startDownload(sm2)), EmptyBag)

\* case downloadErrorMsg
UpdateDownloadErrorMsg(sm, msg) ==
    Ret([sm EXCEPT !.err = msg.err], Bag1(QuitMsg), EmptyBag)

\* case allCompleteMsg
UpdateAllCompleteMsg(sm) == Ret(sm, Bag1(QuitMsg), EmptyBag)

\* variant: the file is written under its CDN path, not its local path
downloadDestBare(task) == task.FilePath

\* the path downloadNext hands to downloadFile
downloadDest(task) == task.DestPath

\* fmt.Errorf("failed to download %s: %w", task.FilePath, err)
downloadError(task, cause) == <<"failed to download", task.FilePath, cause>>

(***************************************************************************)
(* runSync, up to the start of the program                                 *)
(***************************************************************************)
NoPlan == [tasks |-> <<>>, err |-> NoErr, fetched |-> <<>>]
NoOutcome == [err |-> NoErr, printed |-> "nothing", count |-> 0]
Outcome(err, printed, count) == [err |-> err, printed |-> printed, count |-> count]

ExecIdle ==
    /\ m = newSyncModel(<<>>)
    /\ msgs = EmptyBag
    /\ dl = EmptyBag
    /\ started = <<>>
    /\ okDownloads = {}
    /\ failed = <<>>
    /\ keys = 0

ExecReset ==
    /\ m' = newSyncModel(<<>>)
    /\ msgs' = EmptyBag
    /\ dl' = EmptyBag
    /\ started' = <<>>
    /\ okDownloads' = {}
    /\ failed' = <<>>
    /\ keys' = 0

\* the command line: cobra sets the flag variables and calls runSync
Invoke(force, dryRun) ==
    /\ pc \in {"idle", "done"}
    /\ runs < MaxRuns
    /\ runs' = runs + 1
    /\ syncForce' = force
    /\ syncDryRun' = dryRun
    /\ outcome' = NoOutcome
    /\ plan' = NoPlan
    /\ pc' = "invoked"
    /\ ExecReset
    /\ UNCHANGED <<goos, varsCache, varsFilter, varsTree, varsPure, config, varsDisk, lastRun>>

EndRun(result, full) ==
    /\ pc' = "done"
    /\ outcome' = result
    /\ lastRun' = [force |-> syncForce, full |-> full, count |-> Len(plan'.tasks)]

\* runSync: loadConfig, the empty-manifest return and buildDownloadTasks
Plan(order) ==
    /\ pc = "invoked"
    /\ IF DOMAIN config.Libraries = {}
       THEN /\ plan' = NoPlan
            /\ EndRun(Outcome(NoErr, "No libraries defined", 0), FALSE)
       ELSE /\ plan' = buildDownloadTasks(config, order)
            /\ pc' = "planned"
            /\ UNCHANGED <<outcome, lastRun>>
    /\ UNCHANGED <<goos, varsCache, varsFilter, varsTree, varsPure, config, syncForce, syncDryRun,
                   varsDisk, varsExec, runs>>

\* variant: the dry run goes on to the download
ProceedDownloading ==
    /\ pc = "planned"
    /\ UNCHANGED plan
    /\ IF plan.err # NoErr
       THEN /\ EndRun(Outcome(plan.err, "Error", 0), FALSE)
            /\ UNCHANGED varsExec
       ELSE IF Len(plan.tasks) = 0
       THEN /\ EndRun(Outcome(NoErr, "All libraries are up to date", 0), TRUE)
            /\ UNCHANGED varsExec
       ELSE /\ pc' = "running"
            /\ m' = newSyncModel(plan.tasks)
            /\ msgs' = Bag1(startDownload(newSyncModel(plan.tasks)))
            /\ UNCHANGED <<dl, started, okDownloads, failed, keys, outcome, lastRun>>
    /\ UNCHANGED <<goos, varsCache, varsFilter, varsTree, varsPure, config, syncForce, syncDryRun,
                   varsDisk, runs>>

\* runSync after buildDownloadTasks: the error return, "up to date", the dry
\* run, or runInteractiveDownload starting the program with Init's command
Proceed ==
    /\ pc = "planned"
    /\ UNCHANGED plan
    /\ IF plan.err # NoErr
       THEN /\ EndRun(Outcome(plan.err, "Error", 0), FALSE)
            /\ UNCHANGED varsExec
       ELSE IF Len(plan.tasks) = 0
       THEN /\ EndRun(Outcome(NoErr, "All libraries are up to date", 0), TRUE)
            /\ UNCHANGED varsExec
       ELSE IF syncDryRun
       THEN /\ EndRun(Outcome(NoErr, "Dry run", Len(plan.tasks)), FALSE)
            /\ UNCHANGED varsExec
       ELSE /\ pc' = "running"
            /\ m' = newSyncModel(plan.tasks)
            /\ msgs' = Bag1(startDownload(newSyncModel(plan.tasks)))
            /\ UNCHANGED <<dl, started, okDownloads, failed, keys, outcome, lastRun>>
    /\ UNCHANGED <<goos, varsCache, varsFilter, varsTree, varsPure, config, syncForce, syncDryRun,
                   varsDisk, runs>>

(***************************************************************************)
(* The program's event loop: one action per message type of Update         *)
(***************************************************************************)
Others == <<goos, varsCache, varsFilter, varsTree, varsPure, config, syncForce, syncDryRun, plan,
            runs>>

\* the event loop hands msg to Update and starts the commands it returns
Handle(msg, ret) ==
    /\ m' = ret.m
    /\ msgs' = (msgs (-) Bag1(msg)) (+) ret.msgs
    /\ dl' = dl (+) ret.dl
    /\ UNCHANGED <<pc, outcome, lastRun, started, okDownloads, failed, varsDisk>>
    /\ UNCHANGED Others

\* a key press reaches Update; it was in no queue before
KeyPress(key) ==
    /\ pc = "running"
    /\ key = "ctrl+c" => keys < MaxKeys
    /\ keys' = IF key = "ctrl+c" THEN keys + 1 ELSE keys
    /\ LET ret == UpdateKeyMsg(m, key) IN
       /\ m' = ret.m
       /\ msgs' = msgs (+) ret.msgs
       /\ dl' = dl (+) ret.dl
    /\ UNCHANGED <<pc, outcome, lastRun, started, okDownloads, failed, varsDisk>>
    /\ UNCHANGED Others

OnDownloadStart ==
    /\ pc = "running"
    /\ \E msg \in BagToSet(msgs) :
          /\ msg.type = "downloadStart"
          /\ Handle(msg, UpdateDownloadStartMsg(m, msg))
    /\ UNCHANGED keys

OnTick ==
    /\ pc = "running"
    /\ BagIn(tickMsg, msgs)
    /\ Handle(tickMsg, UpdateTickMsg(m))
    /\ UNCHANGED keys

OnDownloadComplete ==
    /\ pc = "running"
    /\ \E msg \in BagToSet(msgs) :
          /\ msg.type = "downloadComplete"
          /\ Handle(msg, UpdateDownloadCompleteMsg(m))
    /\ UNCHANGED keys

OnDownloadError ==
    /\ pc = "running"
    /\ \E msg \in BagToSet(msgs) :
          /\ msg.type = "downloadError"
          /\ Handle(msg, UpdateDownloadErrorMsg(m, msg))
    /\ UNCHANGED keys

OnAllComplete ==
    /\ pc = "running"
    /\ BagIn(allCompleteMsg, msgs)
    /\ Handle(allCompleteMsg, UpdateAllCompleteMsg(m))
    /\ UNCHANGED keys

\* runInteractiveDownload after p.Run(): the final model's err, or the
\* "Sync complete" report
interactiveResult(sm, tasks) ==
    IF sm.err # NoErr THEN Outcome(sm.err, "Error", 0)
    ELSE Outcome(NoErr, "Sync complete", Len(tasks))

\* the event loop receives QuitMsg: Run returns the model, runSync returns
\* and the process exits, which ends whatever its goroutines were doing
OnQuit ==
    /\ pc = "running"
    /\ BagIn(QuitMsg, msgs)
    /\ UNCHANGED plan
    /\ EndRun(interactiveResult(m, plan.tasks),
              okDownloads = 0..(Len(plan.tasks) - 1))
    /\ msgs' = EmptyBag
    /\ dl' = EmptyBag
    /\ UNCHANGED <<m, started, okDownloads, failed, keys, varsDisk>>
    /\ UNCHANGED <<goos, varsCache, varsFilter, varsTree, varsPure, config, syncForce, syncDryRun, runs>>

(***************************************************************************)
(* downloadNext and downloadFile, step by step                             *)
(***************************************************************************)
Fail(d, cause) ==
    /\ dl' = dl (-) Bag1(d)
    /\ failed' = Append(failed, [index |-> d.index, cause |-> cause])
    /\ msgs' = msgs (+) Bag1(downloadErrorMsg(
                                downloadError(m.tasks[d.index + 1], cause)))

\* the command starts: the index check, os.MkdirAll, then http.Get is sent
DownloadBegin ==
    /\ pc = "running"
    /\ \E d \in BagToSet(dl) :
          /\ d.phase = "queued"
          /\ IF d.index >= Len(m.tasks)
             THEN /\ dl' = dl (-) Bag1(d)
                  /\ msgs' = msgs (+) Bag1(allCompleteMsg)
                  /\ UNCHANGED <<failed, started, fsDirs>>
             ELSE LET dir == filepathDir(downloadDest(m.tasks[d.index + 1])) IN
                  IF ~osMkdirAllOK(dir)
                  THEN /\ Fail(d, "failed to create directory")
                       /\ UNCHANGED <<started, fsDirs>>
                  ELSE /\ fsDirs' = fsDirs \cup SelfAndAncestors(dir)
                       /\ started' = Append(started, d.index)
                       /\ dl' = (dl (-) Bag1(d)) (+)
                                Bag1([d EXCEPT !.phase = "requested"])
                       /\ UNCHANGED <<failed, msgs>>
    /\ UNCHANGED <<pc, outcome, lastRun, m, okDownloads, keys, fsFiles, pkgTier>>
    /\ UNCHANGED Others

\* the response arrives: a transport error, a status other than 200, or 200
\* and os.Create of the destination
DownloadResponse(answer) ==
    /\ pc = "running"
    /\ \E d \in BagToSet(dl) :
          /\ d.phase = "requested"
          /\ LET task == m.tasks[d.index + 1]
                 dest == downloadDest(task)
             IN  IF answer = "transport"
                 THEN Fail(d, "failed to download") /\ UNCHANGED fsFiles
                 ELSE IF answer = "status"
                 THEN Fail(d, "server returned status") /\ UNCHANGED fsFiles
                 ELSE IF ~osCreateOK(fsDirs, dest)
                 THEN Fail(d, "failed to create file") /\ UNCHANGED fsFiles
                 ELSE /\ fsFiles' = [p \in DOMAIN fsFiles \cup {dest} |->
                                       IF p = dest THEN <<"partial">> \o task.URL
                                       ELSE fsFiles[p]]
                      /\ dl' = (dl (-) Bag1(d)) (+)
                               Bag1([d EXCEPT !.phase = "writing"])
                      /\ UNCHANGED <<failed, msgs>>
    /\ UNCHANGED <<pc, outcome, lastRun, m, started, okDownloads, keys, fsDirs,
                   pkgTier>>
    /\ UNCHANGED Others

\* io.Copy ends: the body is on disk and the command returns
\* downloadCompleteMsg, or the copy failed part-way
DownloadCopy(answer) ==
    /\ pc = "running"
    /\ \E d \in BagToSet(dl) :
          /\ d.phase = "writing"
          /\ LET task == m.tasks[d.index + 1]
                 dest == downloadDest(task)
             IN  IF answer = "io"
                 THEN Fail(d, "failed to write file")
                      /\ UNCHANGED <<fsFiles, okDownloads>>
                 ELSE /\ fsFiles' = [fsFiles EXCEPT ![dest] = task.URL]
                      /\ okDownloads' = okDownloads \cup {d.index}
                      /\ dl' = dl (-) Bag1(d)
                      /\ msgs' = msgs (+) Bag1(downloadCompleteMsg(d.index))
                      /\ UNCHANGED failed
    /\ UNCHANGED <<pc, outcome, lastRun, m, started, keys, fsDirs, pkgTier>>
    /\ UNCHANGED Others

IdleSync ==
    /\ config = [Destination |-> <<>>, CDN |-> "", Libraries |-> <<>>]
    /\ syncForce = FALSE
    /\ syncDryRun = FALSE
    /\ fsFiles = <<>>
    /\ fsDirs = {}
    /\ pkgTier = <<>>
    /\ pc = "off"
    /\ plan = NoPlan
    /\ ExecIdle
    /\ outcome = NoOutcome
    /\ runs = 0
    /\ lastRun = [force |-> FALSE, full |-> FALSE, count |-> 0]

(***************************************************************************)
(* pkgs/cache: the metadata tier.  Time is counted in units of 12 hours.   *)
(***************************************************************************)
\* DefaultTTL = 24 * time.Hour
DefaultTTL == 2

\* fmt.Sprintf("%v", components): the components separated by one space,
\* in square brackets
RECURSIVE spaced(_, _)
spaced(components, i) ==
    IF i > Len(components) THEN <<>>
    ELSE (IF i > 1 THEN <<" ">> ELSE <<>>) \o components[i]
         \o spaced(components, i + 1)

GenerateKey(components) == <<"[">> \o spaced(components, 1) \o <<"]">>

\* Manager.getFilePath: the file name is the SHA-256 of the key
getFilePath(key) == <<"metadata", Separator, "sha256">> \o key \o <<".json">>

\* NewManager: a zero ttl means DefaultTTL; package caching starts enabled
NewManager(enabled, ttl) ==
    [enabled |-> enabled, ttl |-> IF ttl = 0 THEN DefaultTTL ELSE ttl,
     packageCache |-> TRUE]

\* A response struct of the adapters, reduced to a string field and a slice
\* field; "zero" is the field's zero value.
Response(default, files) == [Default |-> default, Files |-> files]

ZeroResponse == Response("zero", "zero")

\* A JSON text: not JSON at all ("garbage"), a JSON value that is no object
\* ("scalar"), or an object whose members are null or absent ("null"), of
\* the wrong JSON type ("mistyped"), or a value of the field's type.
JSONDoc(kind, default, files) == [kind |-> kind, Default |-> default, Files |-> files]

\* json.Marshal of a response: a nil slice is written as null
jsonMarshal(v) ==
    JSONDoc("object", v.Default, IF v.Files = "zero" THEN "null" ELSE v.Files)

\* one struct field under json.Unmarshal: null, an absent member and a
\* mistyped member leave the field as it was
decodeField(member, old) ==
    IF member \in {"null", "mistyped"} THEN old ELSE member

\* json.Unmarshal(doc, &into): a mistyped member is skipped and reported
\* after the other members have been stored
jsonUnmarshal(doc, into) ==
    IF doc.kind # "object" THEN [val |-> into, err |-> TRUE]
    ELSE [val |-> Response(decodeField(doc.Default, into.Default),
                           decodeField(doc.Files, into.Files)),
          err |-> doc.Default = "mistyped" \/ doc.Files = "mistyped"]

\* the content of a metadata file: an Entry, or bytes that are no Entry
Entry(key, data, timestamp, ttl) ==
    [kind |-> "entry", Key |-> key, Data |-> data, Timestamp |-> timestamp,
     TTL |-> ttl]

GarbageFile ==
    [kind |-> "garbage", Key |-> <<>>, Data |-> JSONDoc("garbage", "null", "null"),
     Timestamp |-> 0, TTL |-> 0]

\* variant: the removal is skipped
removeFileSkipped(store, path) == store

\* the files of a directory without one of them
removeFile(store, path) == [p \in DOMAIN store \ {path} |-> store[p]]

writeFile(store, path, content) ==
    [p \in DOMAIN store \cup {path} |-> IF p = path THEN content ELSE store[p]]

GetResult(found, err, result, store) ==
    [found |-> found, err |-> err, result |-> result, store |-> store]

\* variant: the age is compared with the reading manager's ttl
expiredByManager(entry, mg, t) == t - entry.Timestamp > mg.ttl

\* time.Since(entry.Timestamp) > entry.TTL
expired(entry, mg, t) == t - entry.Timestamp > entry.TTL

\* Manager.Get(key, result) at time t on the metadata directory store
Get(mg, store, key, result, t) ==
    LET filePath == getFilePath(key) IN
    IF ~mg.enabled THEN GetResult(FALSE, NoErr, result, store)
    ELSE IF filePath \notin DOMAIN store
    THEN GetResult(FALSE, NoErr, result, store)
    ELSE LET entry == store[filePath] IN
         IF entry.kind # "entry"
         THEN GetResult(FALSE, <<"failed to unmarshal cache entry">>, result, store)
         ELSE IF expired(entry, mg, t)
         THEN GetResult(FALSE, NoErr, result, removeFile(store, filePath))
         ELSE LET u == jsonUnmarshal(entry.Data, result) IN
              IF u.err
              THEN GetResult(FALSE, <<"failed to unmarshal cached data">>,
                             u.val, store)
              ELSE GetResult(TRUE, NoErr, u.val, store)

\* Manager.Set(key, data) at time t: the directory afterwards
Set(mg, store, key, data, t) ==
    IF ~mg.enabled THEN store
    ELSE writeFile(store, getFilePath(key),
                   Entry(key, jsonMarshal(data), t, mg.ttl))

\* the metadata files that hold an Entry past its expiry at time t
expiredFiles(mg, store, t) ==
    {p \in DOMAIN store : store[p].kind = "entry" /\ expired(store[p], mg, t)}

\* variant: the sweep removes every file of the directory
ClearExpiredAll(mg, store, t) ==
    IF ~mg.enabled THEN [removed |-> 0, store |-> store]
    ELSE [removed |-> Cardinality(DOMAIN store), store |-> <<>>]

\* Manager.ClearExpired at time t: the number of files removed and the
\* directory afterwards; a file that is no Entry is skipped
ClearExpired(mg, store, t) ==
    IF ~mg.enabled THEN [removed |-> 0, store |-> store]
    ELSE LET gone == expiredFiles(mg, store, t) IN
         [removed |-> Cardinality(gone),
          store |-> [p \in DOMAIN store \ gone |-> store[p]]]

\* Manager.Stats at time t: the counters of the metadata tier; every file
\* counts as an entry, a file that parses as an Entry past its expiry
\* counts as expired too
Stats(mg, store, t) ==
    IF ~mg.enabled
    THEN [Enabled |-> FALSE, MetadataEntries |-> 0, ExpiredEntries |-> 0]
    ELSE [Enabled |-> TRUE, MetadataEntries |-> Cardinality(DOMAIN store),
          ExpiredEntries |-> Cardinality(expiredFiles(mg, store, t))]

(***************************************************************************)
(* pkgs/cache: the package tier                                            *)
(***************************************************************************)
\* Manager.packagesDir, the home directory being the root
packagesDir == <<Separator, ".smfaman-cache", Separator, "packages">>

\* Manager.getPackageFilePath: packages/{cdn}/{library}/{version}/{filepath}
getPackageFilePath(cdn, library, version, filePath) ==
    filepathJoin(filepathJoin(filepathJoin(filepathJoin(packagesDir, <<cdn>>),
                                           library),
                              version),
                 filePath)

\* path is a directory of the package tier: packagesDir, which NewManager,
\* Clear and ClearPackages create, a directory above it, or one above a
\* stored file
isTierDir(tier, path) ==
    \E p \in DOMAIN tier \cup {packagesDir} :
        \/ path = <<Separator>>
        \/ p = packagesDir /\ path = p
        \/ HasPrefix(p, path \o <<Separator>>)

\* a stored file sits where path needs a directory
fileInTheWay(tier, path) ==
    \E p \in DOMAIN tier : HasPrefix(path, p \o <<Separator>>)

PackageResult(data, found, err) == [data |-> data, found |-> found, err |-> err]

\* Manager.GetPackageFile: os.Stat finds files and directories alike,
\* os.ReadFile fails on a directory
GetPackageFile(mg, tier, cdn, library, version, filePath) ==
    LET cachePath == getPackageFilePath(cdn, library, version, filePath) IN
    IF ~mg.enabled \/ ~mg.packageCache THEN PackageResult(<<>>, FALSE, NoErr)
    ELSE IF cachePath \in DOMAIN tier
    THEN PackageResult(tier[cachePath], TRUE, NoErr)
    ELSE IF isTierDir(tier, cachePath)
    THEN PackageResult(<<>>, FALSE, <<"failed to read cached package file">>)
    ELSE PackageResult(<<>>, FALSE, NoErr)

\* variant: the file is stored only when the tier does not hold it yet
SetPackageFileOnce(mg, tier, cdn, library, version, filePath, data) ==
    LET cachePath == getPackageFilePath(cdn, library, version, filePath) IN
    IF ~mg.enabled \/ ~mg.packageCache \/ cachePath \in DOMAIN tier
    THEN [tier |-> tier, err |-> NoErr]
    ELSE [tier |-> writeFile(tier, cachePath, data), err |-> NoErr]

\* Manager.SetPackageFile: MkdirAll of the file's directory fails when a
\* file is in the way, WriteFile fails on a directory
SetPackageFile(mg, tier, cdn, library, version, filePath, data) ==
    LET cachePath == getPackageFilePath(cdn, library, version, filePath) IN
    IF ~mg.enabled \/ ~mg.packageCache THEN [tier |-> tier, err |-> NoErr]
    ELSE IF fileInTheWay(tier, cachePath)
    THEN [tier |-> tier, err |-> <<"failed to create cache directory">>]
    ELSE IF isTierDir(tier, cachePath)
    THEN [tier |-> tier, err |-> <<"failed to write package file to cache">>]
    ELSE [tier |-> writeFile(tier, cachePath, data), err |-> NoErr]

\* Manager.Stats: PackageFiles, counted by countPackageFiles when the
\* manager and its package cache are enabled
StatsPackageFiles(mg, tier) ==
    IF mg.enabled /\ mg.packageCache THEN Cardinality(DOMAIN tier) ELSE 0

\* variant: the packages directory is left as it is
ClearPackagesSkipped(mg, tier) == tier

\* Manager.ClearPackages: the package tier afterwards
ClearPackages(mg, tier) == IF ~mg.enabled THEN tier ELSE <<>>

\* Manager.Clear: both tiers afterwards
Clear(mg, store, tier) ==
    IF ~mg.enabled THEN [store |-> store, tier |-> tier]
    ELSE [store |-> <<>>, tier |-> <<>>]

\* the cache as frontend_mgr's init leaves it on a machine without a cache
NoGet == <<>>
NoCall == <<>>

IdleCache ==
    /\ now = 0
    /\ mgr = NewManager(TRUE, DefaultTTL)
    /\ metadataDir = <<>>
    /\ lastCall = NoCall
    /\ lastGet = NoGet
    /\ lastSet = <<>>
    /\ ops = 0
    /\ tampers = 0
    /\ lastSweep = <<>>
    /\ lastPkg = [stored |-> <<>>, get |-> <<>>]

(***************************************************************************)
(* pkgs/frontend_mgr/requests.go: SortVersions.  A version string is a      *)
(* sequence of tokens: numbers, ".", "-", "v" and words.                    *)
(***************************************************************************)
IsNumber(t) == t \in {"0", "1", "2", "10"}

\* strconv.ParseInt
ParseInt(t) == CASE t = "0" -> 0 [] t = "1" -> 1 [] t = "2" -> 2 [] t = "10" -> 10

\* a word of letters, and its place in the lexical order of the words
IsWord(t) == t \in {"alpha", "beta", "rc"}

WordOrder(t) == CASE t = "alpha" -> 1 [] t = "beta" -> 2 [] t = "rc" -> 3

\* the index where the dotted numbers that start at i end
RECURSIVE numbersEnd(_, _)
numbersEnd(s, i) ==
    IF i + 2 <= Len(s) /\ s[i + 1] = "." /\ IsNumber(s[i + 2])
    THEN numbersEnd(s, i + 2)
    ELSE i

\* the dotted parts s[i], s[i+2], ... up to index e
RECURSIVE partsOf(_, _, _)
partsOf(s, i, e) ==
    IF i > e THEN <<>> ELSE <<s[i]>> \o partsOf(s, i + 2, e)

\* the text after the numbers is a prerelease: "-" and dotted words or
\* numbers
RECURSIVE dottedFrom(_, _)
dottedFrom(s, i) ==
    /\ i <= Len(s)
    /\ IsWord(s[i]) \/ IsNumber(s[i])
    /\ i = Len(s) \/ (i + 1 < Len(s) /\ s[i + 1] = "." /\ dottedFrom(s, i + 2))

ParsedVersion(ok, segments, pre, original) ==
    [ok |-> ok, segments |-> segments, pre |-> pre, original |-> original]

\* version.NewVersion: v?NUM(.NUM)* and an optional prerelease; fewer than
\* three segments are padded with zeros; anything else is malformed
NewVersion(s) ==
    LET start == IF Len(s) > 0 /\ s[1] = "v" THEN 2 ELSE 1 IN
    IF start > Len(s) \/ ~IsNumber(s[start])
    THEN ParsedVersion(FALSE, <<>>, <<>>, s)
    ELSE LET e == numbersEnd(s, start)
             nums == partsOf(s, start, e)
             segs == [k \in 1..(IF Len(nums) < 3 THEN 3 ELSE Len(nums)) |->
                         IF k <= Len(nums) THEN ParseInt(nums[k]) ELSE 0]
         IN  IF e = Len(s) THEN ParsedVersion(TRUE, segs, <<>>, s)
             ELSE IF s[e + 1] = "-" /\ dottedFrom(s, e + 2)
                  THEN ParsedVersion(TRUE, segs, partsOf(s, e + 2, Len(s)), s)
                  ELSE ParsedVersion(FALSE, <<>>, <<>>, s)

\* go-version's comparePart; "" stands for a part that is not there
comparePart(preSelf, preOther) ==
    IF preSelf = preOther THEN 0
    ELSE IF preSelf = "" THEN (IF IsNumber(preOther) THEN -1 ELSE 1)
    ELSE IF preOther = "" THEN (IF IsNumber(preSelf) THEN 1 ELSE -1)
    ELSE IF IsNumber(preSelf) /\ ~IsNumber(preOther) THEN -1
    ELSE IF ~IsNumber(preSelf) /\ IsNumber(preOther) THEN 1
    ELSE IF ~IsNumber(preSelf)
         THEN (IF WordOrder(preSelf) > WordOrder(preOther) THEN 1 ELSE -1)
         ELSE (IF ParseInt(preSelf) > ParseInt(preOther) THEN 1 ELSE -1)

\* go-version's comparePrereleases: the first part that differs decides
RECURSIVE comparePrereleases(_, _, _)
comparePrereleases(v, other, i) ==
    IF i > Len(v) /\ i > Len(other) THEN 0
    ELSE LET c == comparePart(IF i <= Len(v) THEN v[i] ELSE "",
                              IF i <= Len(other) THEN other[i] ELSE "")
         IN  IF c # 0 THEN c ELSE comparePrereleases(v, other, i + 1)

\* the segments side by side; a missing segment counts as zero
RECURSIVE compareSegments(_, _, _)
compareSegments(a, b, i) ==
    IF i > Len(a) /\ i > Len(b) THEN 0
    ELSE LET lhs == IF i <= Len(a) THEN a[i] ELSE 0
             rhs == IF i <= Len(b) THEN b[i] ELSE 0
         IN  IF lhs < rhs THEN -1
             ELSE IF lhs > rhs THEN 1
             ELSE compareSegments(a, b, i + 1)

\* the place of a number's decimal text in the lexical order
textOrder(n) == CASE n = 0 -> 0 [] n = 1 -> 1 [] n = 10 -> 2 [] OTHER -> 3

\* variant: the segments are compared as text, "10" before "2"
CompareAsText(v, other) ==
    IF v.segments # other.segments
    THEN (IF \E i \in DOMAIN v.segments :
                /\ \A k \in 1..(i - 1) : v.segments[k] = other.segments[k]
                /\ textOrder(v.segments[i]) > textOrder(other.segments[i])
          THEN 1 ELSE -1)
    ELSE IF v.pre = <<>> /\ other.pre = <<>> THEN 0
    ELSE IF v.pre = <<>> THEN 1
    ELSE IF other.pre = <<>> THEN -1
    ELSE comparePrereleases(v.pre, other.pre, 1)

\* Version.Compare: equal segments are decided by the prerelease, and a
\* release is greater than its prereleases
Compare(v, other) ==
    IF v.segments = other.segments
    THEN IF v.pre = <<>> /\ other.pre = <<>> THEN 0
         ELSE IF v.pre = <<>> THEN 1
         ELSE IF other.pre = <<>> THEN -1
         ELSE comparePrereleases(v.pre, other.pre, 1)
    ELSE compareSegments(v.segments, other.segments, 1)

\* the versions that parse, in the order of the input
RECURSIVE parsedFrom(_, _)
parsedFrom(versions, i) ==
    IF i > Len(versions) THEN <<>>
    ELSE LET ver == NewVersion(versions[i]) IN
         (IF ver.ok THEN <<ver>> ELSE <<>>) \o parsedFrom(versions, i + 1)

\* the orders sort.Sort(sort.Reverse(version.Collection(sorted))) can leave:
\* no element is less than one after it; sort.Sort is not stable, so equal
\* elements come in any order
sortedOrders(sorted) ==
    {f \in [DOMAIN sorted -> DOMAIN sorted] :
        /\ \A i, j \in DOMAIN sorted : i # j => f[i] # f[j]
        /\ \A i \in DOMAIN sorted :
              i < Len(sorted) => Compare(sorted[f[i]], sorted[f[i + 1]]) >= 0}

\* SortVersions: the slices it can return
SortVersions(versions) ==
    LET sorted == parsedFrom(versions, 1) IN
    {[i \in DOMAIN sorted |-> sorted[f[i]].original] : f \in sortedOrders(sorted)}

(***************************************************************************)
(* cmd/add.go and cmd/upgrade.go, run without --interactive and without    *)
(* --dry-run.  The provider's version list arrives by the network: it      *)
(* answers, or the request fails in transport.                             *)
(***************************************************************************)
\* a version cdnjs lists under a name that is no number, and one no provider
\* lists
VerR == <<"r3">>
Ver9 == <<"9">>

\* the version lists of the providers and their "latest"; an empty list
\* stands for the provider's 404
ProviderVersions(cdn, packageName) ==
    IF packageName = LibJ
    THEN (IF cdn = CDNCdnjs THEN <<Ver1, VerR, Ver2>> ELSE <<Ver1, Ver2>>)
    ELSE IF packageName = LibB /\ cdn = CDNCdnjs THEN <<Ver1>>
    ELSE <<>>

ProviderLatest(cdn, packageName) == IF packageName = LibJ THEN Ver2 ELSE Ver1

VersionsResult(versions, latest, err, requests) ==
    [versions |-> versions, latest |-> latest, err |-> err, requests |-> requests]

\* fetchVersionsForCDN: the provider's list through SortVersions
fetchVersionsForCDN(packageName, cdn, answer) ==
    IF ~(cdn \in {CDNUnpkg, CDNCdnjs, CDNJsdelivr})
    THEN VersionsResult(<<>>, <<>>, <<"unsupported CDN">>, 0)
    ELSE IF answer = "transport"
    THEN VersionsResult(<<>>, <<>>, <<"failed to fetch versions", "transport">>, 1)
    ELSE IF ProviderVersions(cdn, packageName) = <<>>
    THEN VersionsResult(<<>>, <<>>, <<"failed to fetch versions", "status">>, 1)
    ELSE VersionsResult(CHOOSE sorted \in SortVersions(ProviderVersions(cdn, packageName)) : TRUE,
                        ProviderLatest(cdn, packageName), NoErr, 1)

\* fetchVersionsForUpgrade: the same code under another name
fetchVersionsForUpgrade(packageName, cdn, answer) ==
    fetchVersionsForCDN(packageName, cdn, answer)

\* validateVersion after the fetch: r is what fetchVersionsForCDN returned
validateIn(r, version) ==
    IF r.err # NoErr THEN [err |-> r.err, requests |-> r.requests]
    ELSE IF \E i \in DOMAIN r.versions : r.versions[i] = version
         THEN [err |-> NoErr, requests |-> r.requests]
         ELSE [err |-> <<"version not found">>, requests |-> r.requests]

\* validateVersion: the version is looked up in the sorted list
validateVersion(packageName, version, cdn, answer) ==
    validateIn(fetchVersionsForCDN(packageName, cdn, answer), version)

\* validateVersionForUpgrade: the same code under another name
validateVersionForUpgrade(packageName, version, cdn, answer) ==
    validateVersion(packageName, version, cdn, answer)

IsValidCDN(cdn) == cdn \in {CDNUnpkg, CDNCdnjs, CDNJsdelivr}

\* determineCDNForAdd: the --cdn flag, the manifest's default, unpkg
determineCDNForAdd(fc, addCDN) ==
    IF addCDN # "" /\ IsValidCDN(addCDN) THEN addCDN
    ELSE IF fc.CDN # "" /\ IsValidCDN(fc.CDN) THEN fc.CDN
    ELSE CDNUnpkg

CmdResult(fc, err, cdn, requests) ==
    [config |-> fc, err |-> err, cdn |-> cdn, requests |-> requests]

\* the manifest with one library's entry set
withLibrary(fc, packageName, libConfig) ==
    [fc EXCEPT !.Libraries =
        [l \in DOMAIN fc.Libraries \cup {packageName} |->
            IF l = packageName THEN libConfig ELSE fc.Libraries[l]]]

\* addLibraryToConfig once the version is settled: v is what the validation
\* or the fetch of the latest version returned
addSelected(fc, packageName, specifiedVersion, addCDN, cdn, v) ==
    IF v.err # NoErr THEN CmdResult(fc, v.err, cdn, v.requests)
    ELSE CmdResult(withLibrary(fc, packageName,
                       [Version |-> IF specifiedVersion # <<>> THEN specifiedVersion
                                    ELSE v.latest,
                        CDN |-> addCDN, Files |-> <<>>, OutputPath |-> <<>>]),
                   NoErr, cdn, v.requests)

\* addLibraryToConfig once the provider is determined
addFrom(fc, packageName, specifiedVersion, addCDN, answer, cdn) ==
    addSelected(fc, packageName, specifiedVersion, addCDN, cdn,
                IF specifiedVersion # <<>>
                THEN validateVersion(packageName, specifiedVersion, cdn, answer)
                ELSE fetchVersionsForCDN(packageName, cdn, answer))

\* addLibraryToConfig; specifiedVersion is <<>> when the spec names none
addLibraryToConfig(fc, packageName, specifiedVersion, addCDN, addForce, answer) ==
    IF packageName \in DOMAIN fc.Libraries /\ ~addForce
    THEN CmdResult(fc, <<"already exists in config">>, "", 0)
    ELSE addFrom(fc, packageName, specifiedVersion, addCDN, answer,
                 determineCDNForAdd(fc, addCDN))

\* upgradeSpecificLibrary once the version is settled
upgradeSelected(fc, packageName, specifiedVersion, cdn, v) ==
    IF v.err # NoErr THEN CmdResult(fc, v.err, cdn, v.requests)
    ELSE IF fc.Libraries[packageName].Version
               = (IF specifiedVersion # <<>> THEN specifiedVersion ELSE v.latest)
    THEN CmdResult(fc, NoErr, cdn, v.requests)
    ELSE CmdResult(withLibrary(fc, packageName,
                       [fc.Libraries[packageName] EXCEPT
                           !.Version = IF specifiedVersion # <<>>
                                       THEN specifiedVersion ELSE v.latest]),
                   NoErr, cdn, v.requests)

\* upgradeSpecificLibrary once the provider is determined
upgradeFrom(fc, packageName, specifiedVersion, answer, cdn) ==
    upgradeSelected(fc, packageName, specifiedVersion, cdn,
                    IF specifiedVersion # <<>>
                    THEN validateVersionForUpgrade(packageName, specifiedVersion,
                                                   cdn, answer)
                    ELSE fetchVersionsForUpgrade(packageName, cdn, answer))

\* upgradeSpecificLibrary
upgradeSpecificLibrary(fc, packageName, specifiedVersion, answer) ==
    IF packageName \notin DOMAIN fc.Libraries
    THEN CmdResult(fc, <<"not found in config">>, "", 0)
    ELSE upgradeFrom(fc, packageName, specifiedVersion, answer,
                     GetLibraryCDN(fc, fc.Libraries[packageName]))

(***************************************************************************)
(* Inputs of the two pure functions                                        *)
(***************************************************************************)
SeqUpTo(S, n) == UNION {[1..k -> S] : k \in 0..n}

\* paths an adapter lists: dist/a, dist/b, src/c, and a top-level file
FilterPaths ==
    {<<"d", "/", "a">>, <<"d", "/", "b">>, <<"s", "/", "c">>, <<"d">>}

\* filter patterns: a directory prefix, an exact path, a bare prefix, one that
\* matches nothing
FilterPatterns ==
    {<<"d", "/">>, <<"d", "/", "a">>, <<"d">>, <<"s", "/", "c">>, <<"x">>}

FilterFile(p) == CDNFile(p, <<"http://example.com/">> \o p, Len(p))

TreeFileNodes ==
    {JsdelivrFile("file", <<"a">>, 1, <<>>), JsdelivrFile("file", <<"b">>, 2, <<>>)}

RECURSIVE TreeNodes(_)
TreeNodes(depth) ==
    TreeFileNodes \cup
    {JsdelivrFile("directory", <<"d">>, 0, kids) :
        kids \in IF depth = 0 THEN {<<>>}
                 ELSE SeqUpTo(TreeNodes(depth - 1), MaxKids)}

Forests == SeqUpTo(TreeNodes(MaxDepth), MaxKids)

(***************************************************************************)
(* Specification of filterFiles: inputs drawn, the planner's filter step   *)
(* applied once.                                                           *)
(***************************************************************************)
IdleFilter ==
    /\ filterIn = [files |-> <<>>, patterns |-> <<>>]
    /\ filterOut = <<>>
    /\ filterDone = FALSE

IdleTree ==
    /\ treeIn = <<>>
    /\ treeOut = <<>>
    /\ treeDone = FALSE

IdleList ==
    /\ listIn = [cdn |-> "", files |-> <<>>, patterns |-> <<>>]
    /\ listOut = [files |-> <<>>, tasks |-> <<>>]
    /\ listDone = FALSE

IdleKey ==
    /\ keyIn = [set |-> <<>>, get |-> <<>>]
    /\ keyOut = <<>>
    /\ keyDone = FALSE

\* the cache directories can be made and the manager was made at start-up
IdleBoot ==
    /\ cacheHome = "ok"
    /\ CacheEnabled = TRUE
    /\ mgrNil = FALSE
    /\ crashed = FALSE

IdleShare ==
    /\ procs = <<>>
    /\ writes = {}

IdlePure ==
    /\ sortIn = <<>>
    /\ sortOut = <<>>
    /\ sortDone = FALSE
    /\ cmd = <<>>
    /\ IdleList
    /\ IdleKey
    /\ IdleBoot
    /\ IdleShare

InitFilter ==
    /\ goos = "unix"
    /\ filterIn \in
          {[files |-> [i \in DOMAIN ps |-> FilterFile(ps[i])], patterns |-> pats] :
              ps \in SeqUpTo(FilterPaths, MaxFiles),
              pats \in SeqUpTo(FilterPatterns, MaxPatterns)}
    /\ filterOut = <<>>
    /\ filterDone = FALSE
    /\ IdleTree
    /\ IdlePure
    /\ IdleSync
    /\ IdleCache

ApplyFilter ==
    /\ ~filterDone
    /\ filterOut' = selectFiles(filterIn.files, filterIn.patterns)
    /\ filterDone' = TRUE
    /\ UNCHANGED <<goos, varsCache, filterIn, varsTree, varsPure, varsSync>>

NextFilter == ApplyFilter

SpecFilter == InitFilter /\ [][NextFilter]_vars

(***************************************************************************)
(* Specification of collectJsdelivrFiles: a tree drawn, flattened once.    *)
(***************************************************************************)
InitTree ==
    /\ goos \in GOOS
    /\ treeIn \in Forests
    /\ treeOut = <<>>
    /\ treeDone = FALSE
    /\ IdleFilter
    /\ IdleSync
    /\ IdleCache
    /\ IdlePure

Collect ==
    /\ ~treeDone
    /\ treeOut' = collectJsdelivrFiles(LibJ, Ver1, treeIn, <<>>)
    /\ treeDone' = TRUE
    /\ UNCHANGED <<goos, varsCache, treeIn, varsFilter, varsPure, varsSync>>

NextTree == Collect

SpecTree == InitTree /\ [][NextTree]_vars

(***************************************************************************)
(* Specification of SortVersions: a version list drawn, sorted once.       *)
(***************************************************************************)
V100      == <<"1", ".", "0", ".", "0">>
V10       == <<"1", ".", "0">>
V200      == <<"2", ".", "0", ".", "0">>
V1000     == <<"10", ".", "0", ".", "0">>
V100alpha == <<"1", ".", "0", ".", "0", "-", "alpha">>
V100beta  == <<"1", ".", "0", ".", "0", "-", "beta">>
Vbogus    == <<"bogus">>

\* what a provider's version list can hold
VersionStrings == {V100, V10, V200, V1000, V100alpha, V100beta, Vbogus}

InitSort ==
    /\ goos = "unix"
    /\ sortIn \in SeqUpTo(VersionStrings, MaxVersions)
    /\ sortOut = <<>>
    /\ sortDone = FALSE
    /\ cmd = <<>>
    /\ IdleList
    /\ IdleKey
    /\ IdleBoot
    /\ IdleShare
    /\ IdleFilter
    /\ IdleTree
    /\ IdleSync
    /\ IdleCache

Sort ==
    /\ ~sortDone
    /\ sortOut' \in SortVersions(sortIn)
    /\ sortDone' = TRUE
    /\ UNCHANGED <<goos, sortIn, cmd, varsList, varsKey, varsBoot, varsShare,
                   varsFilter, varsTree, varsSync,
                   varsCache>>

NextSort == Sort

SpecSort == InitSort /\ [][NextSort]_vars

(***************************************************************************)
(* Manifests and disks the sync specification starts from                  *)
(***************************************************************************)
LibraryConfig(version, cdn, files, outputPath) ==
    [Version |-> version, CDN |-> cdn, Files |-> files, OutputPath |-> outputPath]

DestTemplate == <<"o", "/", "{library_name}">>

\* library j in every combination of provider override, file filter and
\* output_path, alone; library b from cdnjs beside a library j that is
\* served by jsDelivr or names an unknown provider
LibJConfigs ==
    {LibraryConfig(Ver1, cdn, files, out) :
        cdn \in {"", CDNUnpkg, CDNCdnjs, CDNJsdelivr, "bogus"},
        files \in {<<>>, << <<"d", "/">> >>},
        out \in {<<>>, <<"p">>}}

LibBConfig == LibraryConfig(Ver1, CDNCdnjs, <<>>, <<>>)

Manifests ==
    {[Destination |-> dest, CDN |-> cdn, Libraries |-> libs] :
        dest \in {<<>>, DestTemplate},
        cdn \in {"", CDNJsdelivr},
        libs \in {<<>>}
                 \cup {[l \in {LibJ} |-> cj] : cj \in LibJConfigs}
                 \cup {[l \in {LibJ, LibB} |->
                           IF l = LibJ THEN LibraryConfig(Ver1, cj, <<>>, <<>>)
                           ELSE LibBConfig] : cj \in {CDNJsdelivr, "bogus"}}}

\* the package tier already holds library j's file c from jsDelivr
PackagesBefore ==
    [k \in {<<Separator, ".smfaman-cache", Separator, "packages", Separator,
              CDNJsdelivr, Separator, "j", Separator, "1", Separator, "c">>}
        |-> <<"bytes">>]

\* the working directory on a fresh disk
FreshDirs == {<<Separator>>, <<Separator, "w">>}

\* a file the user already has at library j's d/a under DestTemplate, and the
\* directories above it
ExistingFile ==
    <<Separator, "w", Separator, "o", Separator, "j", Separator, "d", Separator, "a">>

ExistingDirs ==
    FreshDirs \cup
    {<<Separator, "w", Separator, "o">>,
     <<Separator, "w", Separator, "o", Separator, "j">>,
     <<Separator, "w", Separator, "o", Separator, "j", Separator, "d">>}

InitSync ==
    /\ goos \in GOOS
    /\ config \in Manifests
    /\ syncForce = FALSE
    /\ syncDryRun = FALSE
    /\ \E have \in BOOLEAN :
          /\ fsFiles = IF have THEN [p \in {ExistingFile} |-> <<"user">>] ELSE <<>>
          /\ fsDirs = IF have THEN ExistingDirs ELSE FreshDirs
    /\ pkgTier = PackagesBefore
    /\ pc = "idle"
    /\ plan = NoPlan
    /\ ExecIdle
    /\ outcome = NoOutcome
    /\ runs = 0
    /\ lastRun = [force |-> FALSE, full |-> FALSE, count |-> 0]
    /\ IdleFilter
    /\ IdleTree
    /\ IdlePure
    /\ IdleCache

NextSync ==
    \/ \E force, dryRun \in BOOLEAN : Invoke(force, dryRun)
    \/ \E order \in MapOrders(DOMAIN config.Libraries) : Plan(order)
    \/ Proceed
    \/ \E key \in {"ctrl+c", "q"} : KeyPress(key)
    \/ OnDownloadStart
    \/ OnTick
    \/ OnDownloadComplete
    \/ OnDownloadError
    \/ OnAllComplete
    \/ OnQuit
    \/ DownloadBegin
    \/ \E answer \in {"transport", "status", "ok"} : DownloadResponse(answer)
    \/ \E answer \in {"io", "ok"} : DownloadCopy(answer)

SpecSync == InitSync /\ [][NextSync]_vars

(***************************************************************************)
(* Specification of the planner's work on one library: an adapter's answer *)
(* is drawn, fetchFileList's loops make the file list of it and            *)
(* buildDownloadTasks' inner loop the tasks, on an empty disk.             *)
(***************************************************************************)
\* what UNPKG can list: a path with its leading slash, with two, with none
ListedUnpkg ==
    {UnpkgFile(<<"/", "d", "/", "a">>, 1, "file"),
     UnpkgFile(<<"/", "/", "a">>, 2, "file"),
     UnpkgFile(<<"a">>, 3, "file")}

\* what cdnjs can list
ListedCdnjs == {<<"c">>, <<"/", "c">>, <<"d", "/", "a">>}

\* what jsDelivr can list
ListedJsdelivr ==
    {JsdelivrFile("file", <<"a">>, 1, <<>>),
     JsdelivrFile("file", <<"/", "a">>, 2, <<>>),
     JsdelivrFile("directory", <<"d">>, 0, <<JsdelivrFile("file", <<"a">>, 1, <<>>)>>)}

\* no filter, or one whose patterns overlap
ListPatterns == {<<>>, << <<"d", "/">>, <<"d", "/", "a">> >>}

ListDest == <<Separator, "w", Separator, "o">>

InitList ==
    /\ goos \in GOOS
    /\ \E pats \in ListPatterns :
          \/ \E fs \in SeqUpTo(ListedUnpkg, MaxListed) :
                listIn = [cdn |-> CDNUnpkg, files |-> fs, patterns |-> pats]
          \/ \E fs \in SeqUpTo(ListedCdnjs, MaxListed) :
                listIn = [cdn |-> CDNCdnjs, files |-> fs, patterns |-> pats]
          \/ \E fs \in SeqUpTo(ListedJsdelivr, MaxListed) :
                listIn = [cdn |-> CDNJsdelivr, files |-> fs, patterns |-> pats]
    /\ listOut = [files |-> <<>>, tasks |-> <<>>]
    /\ listDone = FALSE
    /\ sortIn = <<>>
    /\ sortOut = <<>>
    /\ sortDone = FALSE
    /\ cmd = <<>>
    /\ IdleKey
    /\ IdleBoot
    /\ IdleShare
    /\ IdleFilter
    /\ IdleTree
    /\ IdleSync
    /\ IdleCache

ListFiles ==
    /\ ~listDone
    /\ LET files == filesFrom(LibJ, Ver1, listIn.cdn, listIn.files)
           libConfig == LibraryConfig(Ver1, listIn.cdn, listIn.patterns, <<>>)
       IN  listOut' = [files |-> files,
                       tasks |-> tasksFrom(LibJ, libConfig, listIn.cdn, ListDest,
                                     selectFiles(files, listIn.patterns), 1)]
    /\ listDone' = TRUE
    /\ UNCHANGED <<goos, listIn, sortIn, sortOut, sortDone, cmd, varsKey, varsBoot, varsShare,
                   varsFilter,
                   varsTree, varsSync, varsCache>>

NextList == ListFiles

SpecList == InitList /\ [][NextList]_vars

(***************************************************************************)
(* The key specification: a value is stored under the key of one tuple of  *)
(* components and read under the key of another, on an empty metadata      *)
(* directory, by an enabled manager.                                       *)
(***************************************************************************)

\* the provider and the kind of operation, as the adapters pass them
KeyProviders == {<<"unpkg">>, <<"cdnjs">>}

KeyKinds == {<<"version">>, <<"versions">>}

\* library names and versions as the caller gives them
KeyLibraries == {<<"a">>, <<"a", " ", "b">>}

KeyVersions == {<<"1">>, <<"b">>, <<"b", " ", "1">>}

\* (provider, kind, library) and (provider, kind, library, version)
KeyTuples ==
    {<<p, k, l>> : p \in KeyProviders, k \in KeyKinds, l \in KeyLibraries}
    \cup {<<p, k, l, v>> : p \in KeyProviders, k \in KeyKinds,
                           l \in KeyLibraries, v \in KeyVersions}

InitKey ==
    /\ goos = "unix"
    /\ keyIn \in [set : KeyTuples, get : KeyTuples]
    /\ keyOut = <<>>
    /\ keyDone = FALSE
    /\ sortIn = <<>>
    /\ sortOut = <<>>
    /\ sortDone = FALSE
    /\ cmd = <<>>
    /\ IdleList
    /\ IdleBoot
    /\ IdleShare
    /\ IdleFilter
    /\ IdleTree
    /\ IdleSync
    /\ IdleCache

\* Set under the key of keyIn.set, then Get under the key of keyIn.get
StoreAndLook ==
    /\ ~keyDone
    /\ LET mg == NewManager(TRUE, 0)
           setKey == GenerateKey(keyIn.set)
           getKey == GenerateKey(keyIn.get)
           store == Set(mg, <<>>, setKey, Response("x", "f"), 0)
       IN  keyOut' = <<[setKey |-> setKey, getKey |-> getKey,
                        got |-> Get(mg, store, getKey, ZeroResponse, 0)]>>
    /\ keyDone' = TRUE
    /\ UNCHANGED <<goos, keyIn, sortIn, sortOut, sortDone, cmd, varsList, varsBoot,
                   varsShare,
                   varsFilter, varsTree, varsSync, varsCache>>

NextKey == StoreAndLook

SpecKey == InitKey /\ [][NextKey]_vars

(***************************************************************************)
(* The manifest specification: add and upgrade edit the manifest of a      *)
(* project whose library j was synced before, and sync --dry-run plans     *)
(* from it.                                                                *)
(***************************************************************************)
\* library j at version 1, with and without a provider of its own and a
\* default provider
SyncedManifests ==
    {[Destination |-> DestTemplate, CDN |-> cdn,
      Libraries |-> [l \in {LibJ} |-> LibraryConfig(Ver1, cj, <<>>, <<>>)]] :
        cdn \in {"", CDNJsdelivr}, cj \in {"", CDNUnpkg, CDNCdnjs}}

InitManifest ==
    /\ goos = "unix"
    /\ config \in SyncedManifests
    /\ syncForce = FALSE
    /\ syncDryRun = FALSE
    /\ fsFiles = [p \in {ExistingFile} |-> <<"j", "1">>]
    /\ fsDirs = ExistingDirs
    /\ pkgTier = <<>>
    /\ pc = "idle"
    /\ plan = NoPlan
    /\ ExecIdle
    /\ outcome = NoOutcome
    /\ runs = 0
    /\ lastRun = [force |-> FALSE, full |-> FALSE, count |-> 0]
    /\ IdleFilter
    /\ IdleTree
    /\ IdlePure
    /\ IdleCache

\* what the commands below leave alone
OthersManifest ==
    <<goos, varsFilter, varsTree, varsCache, sortIn, sortOut, sortDone, varsList,
      varsKey, varsBoot, varsShare,
      syncForce, syncDryRun, varsDisk, pc, plan, varsExec, outcome, runs, lastRun>>

Command(name, packageName, specifiedVersion, r) ==
    <<[name |-> name, lib |-> packageName, version |-> specifiedVersion,
       cdn |-> r.cdn, err |-> r.err, requests |-> r.requests, runs |-> runs,
       turn |-> IF cmd = <<>> THEN 0 ELSE 1 - cmd[1].turn]>>

\* the command returns r: the manifest is saved and the outcome printed
Ran(name, packageName, specifiedVersion, r) ==
    /\ config' = r.config
    /\ cmd' = Command(name, packageName, specifiedVersion, r)

\* smfaman add package[@version] [--cdn addCDN] [--force]
RunAdd(packageName, specifiedVersion, addCDN, addForce, answer) ==
    /\ pc \in {"idle", "done"}
    /\ Ran("add", packageName, specifiedVersion,
           addLibraryToConfig(config, packageName, specifiedVersion, addCDN,
                              addForce, answer))
    /\ UNCHANGED OthersManifest

\* smfaman upgrade package[@version]
RunUpgrade(packageName, specifiedVersion, answer) ==
    /\ pc \in {"idle", "done"}
    /\ Ran("upgrade", packageName, specifiedVersion,
           upgradeSpecificLibrary(config, packageName, specifiedVersion, answer))
    /\ UNCHANGED OthersManifest

NextManifest ==
    \/ \E specifiedVersion \in {Ver1, Ver9}, addCDN \in {"", CDNCdnjs},
          answer \in {"ok", "transport"} :
          RunAdd(LibB, specifiedVersion, addCDN, FALSE, answer)
    \/ \E addCDN \in {"bogus", CDNUnpkg} : RunAdd(LibJ, Ver1, addCDN, TRUE, "ok")
    \/ \E specifiedVersion \in {<<>>, Ver2, VerR, Ver9},
          answer \in {"ok", "transport"} :
          RunUpgrade(LibJ, specifiedVersion, answer)
    \/ Invoke(FALSE, TRUE)
    \/ \E order \in MapOrders(DOMAIN config.Libraries) : Plan(order)
    \/ Proceed

SpecManifest == InitManifest /\ [][NextManifest]_vars

(***************************************************************************)
(* pkgs/frontend_mgr/requests.go: the cached adapters                      *)
(***************************************************************************)
NilResponse == Response("nil", "nil")

FetchReturn(val, err, requests, store) ==
    [val |-> val, err |-> err, requests |-> requests, store |-> store]

\* variant: the adapter never consults the cache before the GET
fetchUnprobed(mg, store, cacheKey, answer, t) ==
    IF answer.kind = "status"
    THEN FetchReturn(NilResponse, <<"API returned status">>, 1, store)
    ELSE LET u == jsonUnmarshal(answer.body, ZeroResponse) IN
         IF u.err
         THEN FetchReturn(NilResponse, <<"failed to decode response">>, 1, store)
         ELSE FetchReturn(u.val, NoErr, 1, Set(mg, store, cacheKey, u.val, t))

\* the body every Fetch function shares: the cache probe into result, the
\* GET, the status check, Decode into the same result, and Set
fetchCached(mg, store, cacheKey, answer, t) ==
    LET g == Get(mg, store, cacheKey, ZeroResponse, t) IN
    IF g.found THEN FetchReturn(g.result, NoErr, 0, g.store)
    ELSE IF answer.kind = "transport"
    THEN FetchReturn(NilResponse, <<"failed to fetch">>, 1, g.store)
    ELSE IF answer.kind = "status"
    THEN FetchReturn(NilResponse, <<"API returned status">>, 1, g.store)
    ELSE LET u == jsonUnmarshal(answer.body, g.result) IN
         IF u.err
         THEN FetchReturn(NilResponse, <<"failed to decode response">>, 1, g.store)
         ELSE FetchReturn(u.val, NoErr, 1, Set(mg, g.store, cacheKey, u.val, t))

\* cache.GenerateKey("unpkg", "meta", libraryName, version)
unpkgMetaKey(libraryName, version) ==
    GenerateKey(<< <<"unpkg">>, <<"meta">>, libraryName, version >>)

\* cache.GenerateKey("jsdelivr", "package", libraryName, version)
jsdelivrPackageKey(libraryName, version) ==
    GenerateKey(<< <<"jsdelivr">>, <<"package">>, libraryName, version >>)

FetchUnpkgMeta(mg, store, libraryName, version, answer, t) ==
    fetchCached(mg, store, unpkgMetaKey(libraryName, version), answer, t)

FetchJsdelivrPackage(mg, store, libraryName, version, answer, t) ==
    fetchCached(mg, store, jsdelivrPackageKey(libraryName, version), answer, t)

(***************************************************************************)
(* The cache specification: the clock, the manager's API and the adapters  *)
(***************************************************************************)
\* the keys of library j's listings at the two providers
CacheKeys == {unpkgMetaKey(LibJ, Ver1), jsdelivrPackageKey(LibJ, Ver1)}

\* what the network can answer to an adapter's GET
Answer(kind, body) == [kind |-> kind, body |-> body]

Answers ==
    {Answer("status", JSONDoc("garbage", "null", "null")),
     Answer("ok", JSONDoc("garbage", "null", "null")),
     Answer("ok", JSONDoc("object", "null", "g"))}

\* values a caller hands to Set
SetValues == {Response("x", "f"), Response("zero", "zero")}

\* what a damaged metadata file can hold: bytes that are no Entry, or an
\* Entry whose data is not a response
Damaged(key, t) ==
    {GarbageFile,
     Entry(key, JSONDoc("object", "old", "mistyped"), t, DefaultTTL)}

\* what the metadata calls below leave alone
OthersCache == <<goos, varsFilter, varsTree, varsPure, varsSync, lastSweep, lastPkg>>

Tick ==
    /\ now < MaxTime
    /\ now' = now + 1
    /\ UNCHANGED <<mgr, metadataDir, lastCall, lastGet, lastSet, ops, tampers>>
    /\ UNCHANGED OthersCache

\* the latest call was followed by something else that touched the cache
Disturbed == [i \in DOMAIN lastCall |-> [lastCall[i] EXCEPT !.undisturbed = FALSE]]

\* frontend_mgr.SetCacheEnabled: a new manager with a ttl of 24 hours
SetCacheEnabled(enabled) ==
    /\ ops < MaxToggles
    /\ enabled # mgr.enabled
    /\ ops' = ops + 1
    /\ mgr' = NewManager(enabled, DefaultTTL)
    /\ lastCall' = Disturbed
    /\ UNCHANGED <<now, metadataDir, lastGet, lastSet, tampers>>
    /\ UNCHANGED OthersCache

\* cache.NewManager(enabled, ttl), called by a user of the package
CallNewManager(enabled, ttl) ==
    /\ ops < MaxOps
    /\ ops' = ops + 1
    /\ mgr' = NewManager(enabled, ttl)
    /\ UNCHANGED <<now, metadataDir, lastCall, lastGet, lastSet, tampers>>
    /\ UNCHANGED OthersCache

Written(key) == IF key \in DOMAIN lastSet THEN <<lastSet[key]>> ELSE <<>>

NoteSet(key, val) ==
    [k \in DOMAIN lastSet \cup {key} |->
        IF k = key THEN [at |-> now, ttl |-> mgr.ttl, val |-> val] ELSE lastSet[k]]

CallSet(key, val) ==
    /\ ops < MaxOps
    /\ ops' = ops + 1
    /\ metadataDir' = Set(mgr, metadataDir, key, val, now)
    /\ lastSet' = IF mgr.enabled THEN NoteSet(key, val) ELSE lastSet
    /\ UNCHANGED <<now, mgr, lastCall, lastGet, tampers>>
    /\ UNCHANGED OthersCache

CallGet(key) ==
    /\ ops < MaxOps
    /\ ops' = ops + 1
    /\ LET g == Get(mgr, metadataDir, key, ZeroResponse, now) IN
       /\ metadataDir' = g.store
       /\ lastGet' = <<[call |-> ops + 1, key |-> key, at |-> now,
                        enabled |-> mgr.enabled,
                        found |-> g.found, err |-> g.err, val |-> g.result,
                        written |-> Written(key)]>>
    /\ UNCHANGED <<now, mgr, lastCall, lastSet, tampers>>
    /\ UNCHANGED OthersCache

\* an adapter is called and the network gives its answer
CallFetch(provider, answer) ==
    /\ LET key == IF provider = CDNUnpkg THEN unpkgMetaKey(LibJ, Ver1)
                  ELSE jsdelivrPackageKey(LibJ, Ver1)
           r   == IF provider = CDNUnpkg
                  THEN FetchUnpkgMeta(mgr, metadataDir, LibJ, Ver1, answer, now)
                  ELSE FetchJsdelivrPackage(mgr, metadataDir, LibJ, Ver1, answer, now)
       IN  /\ metadataDir' = r.store
           /\ lastCall' = <<[key |-> key, at |-> now, answer |-> answer,
                             requests |-> r.requests, err |-> r.err, val |-> r.val,
                             undisturbed |-> TRUE,
                             turn |-> IF lastCall = NoCall THEN 0
                                      ELSE 1 - lastCall[1].turn]>>
    /\ UNCHANGED <<now, mgr, lastGet, lastSet, ops, tampers>>
    /\ UNCHANGED OthersCache

\* a metadata file is damaged from outside the program
Tamper(key, content) ==
    /\ tampers < MaxTampers
    /\ tampers' = tampers + 1
    /\ metadataDir' = writeFile(metadataDir, getFilePath(key), content)
    /\ lastCall' = Disturbed
    /\ UNCHANGED <<now, mgr, lastGet, lastSet, ops>>
    /\ UNCHANGED OthersCache

CallClearExpired ==
    /\ ops < MaxOps
    /\ ops' = ops + 1
    /\ LET c == ClearExpired(mgr, metadataDir, now) IN
       /\ metadataDir' = c.store
       /\ lastSweep' = <<[call |-> ops + 1, at |-> now, removed |-> c.removed]>>
    /\ UNCHANGED <<now, mgr, lastCall, lastGet, lastSet, tampers, lastPkg>>
    /\ UNCHANGED <<goos, varsFilter, varsTree, varsPure, varsSync>>

\* what the package calls below leave alone
OthersPackage ==
    <<goos, varsFilter, varsTree, varsPure, config, syncForce, syncDryRun, fsFiles, fsDirs,
      pc, plan, varsExec, outcome, runs, lastRun>>

\* the components of two package files, and the bytes a caller stores
PackageFiles ==
    {<<CDNUnpkg, LibJ, Ver1, <<"d", "/", "a">> >>,
     <<CDNJsdelivr, LibJ, Ver1, <<"c">> >>}

PackageBytes == {<<"x">>, <<"y">>}

\* Manager.SetPackageCacheEnabled
SetPackageCacheEnabled(enabled) ==
    /\ enabled # mgr.packageCache
    /\ mgr' = [mgr EXCEPT !.packageCache = enabled]
    /\ UNCHANGED <<now, metadataDir, lastCall, lastGet, lastSet, ops, tampers,
                   lastSweep, lastPkg, pkgTier>>
    /\ UNCHANGED OthersPackage

CallSetPackageFile(f, data) ==
    /\ ops < MaxOps
    /\ ops' = ops + 1
    /\ LET r == SetPackageFile(mgr, pkgTier, f[1], f[2], f[3], f[4], data) IN
       /\ pkgTier' = r.tier
       /\ lastPkg' =
             IF mgr.enabled /\ mgr.packageCache /\ r.err = NoErr
             THEN [lastPkg EXCEPT !.stored =
                      [g \in DOMAIN lastPkg.stored \cup {f} |->
                          IF g = f THEN [data |-> data, call |-> ops + 1]
                          ELSE lastPkg.stored[g]]]
             ELSE lastPkg
    /\ UNCHANGED <<now, mgr, metadataDir, lastCall, lastGet, lastSet, tampers,
                   lastSweep>>
    /\ UNCHANGED OthersPackage

CallGetPackageFile(f) ==
    /\ ops < MaxOps
    /\ ops' = ops + 1
    /\ LET r == GetPackageFile(mgr, pkgTier, f[1], f[2], f[3], f[4]) IN
       lastPkg' =
          [lastPkg EXCEPT !.get =
              <<[call |-> ops + 1, file |-> f,
                 enabled |-> mgr.enabled /\ mgr.packageCache,
                 found |-> r.found, err |-> r.err, data |-> r.data,
                 stored |-> IF f \in DOMAIN lastPkg.stored
                            THEN <<lastPkg.stored[f]>> ELSE <<>>]>>]
    /\ UNCHANGED <<now, mgr, metadataDir, lastCall, lastGet, lastSet, tampers,
                   lastSweep, pkgTier>>
    /\ UNCHANGED OthersPackage

CallClearPackages ==
    /\ ops < MaxOps
    /\ ops' = ops + 1
    /\ pkgTier' = ClearPackages(mgr, pkgTier)
    /\ lastPkg' = IF mgr.enabled THEN [lastPkg EXCEPT !.stored = <<>>] ELSE lastPkg
    /\ UNCHANGED <<now, mgr, metadataDir, lastCall, lastGet, lastSet, tampers,
                   lastSweep>>
    /\ UNCHANGED OthersPackage

CallClear ==
    /\ ops < MaxOps
    /\ ops' = ops + 1
    /\ LET c == Clear(mgr, metadataDir, pkgTier) IN
       /\ metadataDir' = c.store
       /\ pkgTier' = c.tier
    /\ lastPkg' = IF mgr.enabled THEN [lastPkg EXCEPT !.stored = <<>>] ELSE lastPkg
    /\ lastSet' = IF mgr.enabled THEN <<>> ELSE lastSet
    /\ UNCHANGED <<now, mgr, lastCall, lastGet, tampers, lastSweep>>
    /\ UNCHANGED OthersPackage

InitCache ==
    /\ goos = "unix"
    /\ IdleCache
    /\ IdleFilter
    /\ IdleTree
    /\ IdlePure
    /\ IdleSync

NextCache ==
    \/ Tick
    \/ \E new \in {<<TRUE, 0>>, <<TRUE, 1>>, <<FALSE, 0>>} :
          CallNewManager(new[1], new[2])
    \/ \E key \in CacheKeys, val \in SetValues : CallSet(key, val)
    \/ \E key \in CacheKeys : CallGet(key)
    \/ CallClearExpired

SpecCache == InitCache /\ [][NextCache]_vars

\* a cache directory that holds two listings of library j, fetched at time 0
\* by earlier runs of the program: unpkg's with the ttl of 24 hours, and
\* jsDelivr's by a manager made with a ttl of 48 hours
InitPackage ==
    /\ goos = "unix"
    /\ now = 0
    /\ mgr = NewManager(TRUE, DefaultTTL)
    /\ metadataDir =
          [p \in {getFilePath(unpkgMetaKey(LibJ, Ver1)),
                  getFilePath(jsdelivrPackageKey(LibJ, Ver1))} |->
              IF p = getFilePath(unpkgMetaKey(LibJ, Ver1))
              THEN Entry(unpkgMetaKey(LibJ, Ver1), jsonMarshal(Response("x", "f")),
                         0, DefaultTTL)
              ELSE Entry(jsdelivrPackageKey(LibJ, Ver1),
                         jsonMarshal(Response("y", "g")), 0, 2 * DefaultTTL)]
    /\ lastSet = [k \in {unpkgMetaKey(LibJ, Ver1), jsdelivrPackageKey(LibJ, Ver1)} |->
                    IF k = unpkgMetaKey(LibJ, Ver1)
                    THEN [at |-> 0, ttl |-> DefaultTTL, val |-> Response("x", "f")]
                    ELSE [at |-> 0, ttl |-> 2 * DefaultTTL, val |-> Response("y", "g")]]
    /\ lastCall = NoCall
    /\ lastGet = NoGet
    /\ ops = 0
    /\ tampers = 0
    /\ lastSweep = <<>>
    /\ lastPkg = [stored |-> <<>>, get |-> <<>>]
    /\ IdleFilter
    /\ IdleTree
    /\ IdlePure
    /\ IdleSync

\* the package tier next to the clock and the metadata operations
NextPackage ==
    \/ Tick
    \/ \E enabled \in BOOLEAN : CallNewManager(enabled, 0)
    \/ CallSet(unpkgMetaKey(LibJ, Ver1), Response("x", "f"))
    \/ CallGet(unpkgMetaKey(LibJ, Ver1))
    \/ CallClearExpired
    \/ \E enabled \in BOOLEAN : SetPackageCacheEnabled(enabled)
    \/ \E f \in PackageFiles, data \in PackageBytes : CallSetPackageFile(f, data)
    \/ \E f \in PackageFiles : CallGetPackageFile(f)
    \/ CallClearPackages
    \/ CallClear

SpecPackage == InitPackage /\ [][NextPackage]_vars

NextAdapter ==
    \/ Tick
    \/ \E enabled \in BOOLEAN : SetCacheEnabled(enabled)
    \/ \E provider \in {CDNUnpkg, CDNJsdelivr}, answer \in Answers :
          CallFetch(provider, answer)
    \/ \E key \in CacheKeys : \E content \in Damaged(key, now) :
          Tamper(key, content)

SpecAdapter == InitCache /\ [][NextAdapter]_vars

(***************************************************************************)
(* The start-up specification: the package's init makes the manager, in a  *)
(* home directory that may not let it, and the command line, the adapters  *)
(* and the manager's API are used afterwards.                              *)
(***************************************************************************)
\* the home directory: usable, not to be found (os.UserHomeDir fails), or
\* one in which the cache directories cannot be made (os.MkdirAll fails)
CacheHomes == {"ok", "nohome", "nomkdir"}

\* the fields of no manager: never read
NoManager == [enabled |-> FALSE, ttl |-> 0, packageCache |-> FALSE]

\* cache.NewManager with its failures: getCacheDir fails without a home
\* directory; the directories are made only for an enabled manager; on
\* failure the pointer returned is nil
NewManagerAt(home, enabled, ttl) ==
    IF home = "nohome"
    THEN [nil |-> TRUE, mgr |-> NoManager,
          err |-> <<"failed to get cache directory">>]
    ELSE IF enabled /\ home = "nomkdir"
    THEN [nil |-> TRUE, mgr |-> NoManager,
          err |-> <<"failed to create metadata cache directory">>]
    ELSE [nil |-> FALSE, mgr |-> NewManager(enabled, ttl), err |-> NoErr]

\* the state after frontend_mgr's init: CacheEnabled starts true and is set
\* to false when NewManager fails; the metadata directory is empty or holds
\* the listing of library j written by an earlier process
InitStartup ==
    /\ goos = "unix"
    /\ cacheHome \in CacheHomes
    /\ mgr = NewManagerAt(cacheHome, TRUE, DefaultTTL).mgr
    /\ mgrNil = NewManagerAt(cacheHome, TRUE, DefaultTTL).nil
    /\ CacheEnabled = (NewManagerAt(cacheHome, TRUE, DefaultTTL).err = NoErr)
    /\ crashed = FALSE
    /\ now = 0
    /\ \/ metadataDir = <<>> /\ lastSet = <<>>
       \/ /\ metadataDir =
                [p \in {getFilePath(unpkgMetaKey(LibJ, Ver1))} |->
                    Entry(unpkgMetaKey(LibJ, Ver1), jsonMarshal(Response("x", "f")),
                          0, DefaultTTL)]
          /\ lastSet = [k \in {unpkgMetaKey(LibJ, Ver1)} |->
                          [at |-> 0, ttl |-> DefaultTTL, val |-> Response("x", "f")]]
    /\ lastCall = NoCall
    /\ lastGet = NoGet
    /\ ops = 0
    /\ tampers = 0
    /\ lastSweep = <<>>
    /\ lastPkg = [stored |-> <<>>, get |-> <<>>]
    /\ sortIn = <<>>
    /\ sortOut = <<>>
    /\ sortDone = FALSE
    /\ cmd = <<>>
    /\ IdleList
    /\ IdleKey
    /\ IdleShare
    /\ IdleFilter
    /\ IdleTree
    /\ IdleSync

\* what the start-up steps below leave alone
OthersStartup ==
    <<goos, varsFilter, varsTree, varsSync, sortIn, sortOut, sortDone, cmd,
      varsList, varsKey, varsShare>>

\* a method that reads m.enabled is called through the nil pointer
NilDereference ==
    /\ crashed' = TRUE
    /\ UNCHANGED <<cacheHome, CacheEnabled, mgrNil, varsCache>>
    /\ UNCHANGED OthersStartup

\* frontend_mgr.SetCacheEnabled: the flag is set and the manager replaced by
\* what NewManager returns; pkgver --no-cache calls it with false before
\* the fetch and with true after it
SetCacheEnabledAt(enabled) ==
    /\ ~crashed
    /\ ops < MaxOps
    /\ ops' = ops + 1
    /\ CacheEnabled' = enabled
    /\ mgr' = NewManagerAt(cacheHome, enabled, DefaultTTL).mgr
    /\ mgrNil' = NewManagerAt(cacheHome, enabled, DefaultTTL).nil
    /\ UNCHANGED <<cacheHome, crashed, now, metadataDir, lastCall, lastGet,
                   lastSet, tampers, lastSweep, lastPkg>>
    /\ UNCHANGED OthersStartup

\* an adapter is called: CacheManager.Get is its first use of the pointer
FetchAt(provider, answer) ==
    /\ ~crashed
    /\ IF mgrNil THEN NilDereference ELSE CallFetch(provider, answer)

\* CacheManager.Get(key, &result) by a user of the package
GetAt(key) ==
    /\ ~crashed
    /\ IF mgrNil THEN ops < MaxOps /\ NilDereference ELSE CallGet(key)

\* CacheManager.Set(key, data) by a user of the package
SetAt(key, val) ==
    /\ ~crashed
    /\ IF mgrNil THEN ops < MaxOps /\ NilDereference ELSE CallSet(key, val)

NextStartup ==
    \/ \E enabled \in BOOLEAN : SetCacheEnabledAt(enabled)
    \/ \E provider \in {CDNUnpkg, CDNJsdelivr}, answer \in Answers :
          FetchAt(provider, answer)
    \/ GetAt(unpkgMetaKey(LibJ, Ver1))
    \/ SetAt(unpkgMetaKey(LibJ, Ver1), Response("y", "g"))

SpecStartup == InitStartup /\ [][NextStartup]_vars

(***************************************************************************)
(* The shared-root specification: two processes with enabled managers on   *)
(* one cache root call Get, Set, ClearExpired and an adapter for one key.  *)
(* There is no lock: the system calls of the two interleave.              *)
(* os.WriteFile is an open that truncates, then a write; os.ReadFile       *)
(* reads until the end of the file, in one read or, when the file is       *)
(* truncated under it, in two.  A file of the longer value has a head,     *)
(* with the key and the first member of the data, and a tail, with the     *)
(* second member, the timestamp and the ttl.                               *)
(***************************************************************************)
Procs == {1, 2}

ShareKey == unpkgMetaKey(LibJ, Ver1)

SharePath == getFilePath(ShareKey)

\* the file after os.WriteFile's open: no bytes
EmptyFile ==
    [kind |-> "empty", Key |-> <<>>, Data |-> JSONDoc("garbage", "null", "null"),
     Timestamp |-> 0, TTL |-> 0]

\* what a process stores: the first one a shorter value than the second
ValueOf(p) == IF p = 1 THEN Response("x", "f") ELSE Response("y", "g")

\* the length of a file, in units: an entry of the shorter value is the
\* shortest file with bytes in it
bytesOf(content) ==
    IF content.kind = "empty" THEN 0
    ELSE IF content.kind = "entry" /\ content.Data = jsonMarshal(ValueOf(1)) THEN 1
    ELSE 2

\* the file after a write of entry at offset 0 into the file cur: a longer
\* file keeps its tail, and the whole is no JSON text
landed(cur, entry) ==
    IF bytesOf(cur) > bytesOf(entry) THEN GarbageFile ELSE entry

\* the entry an earlier process left: an older listing, as long as the
\* second process's
EarlierEntry == Entry(ShareKey, jsonMarshal(Response("w", "e")), 0, DefaultTTL)

\* the bytes os.ReadFile returns when its first read ended after the head
\* of the file c1 and its next read finds the file rest: the same file,
\* nothing more (a prefix), or the head of one file and the tail of
\* another, which parses or does not
spliced(c1, rest) ==
    IF rest = c1 THEN {c1}
    ELSE IF bytesOf(rest) < 2 \/ rest.kind # "entry" \/ c1.kind # "entry"
    THEN {GarbageFile}
    ELSE IF rest.Data = c1.Data THEN {rest}
    ELSE {GarbageFile,
          [rest EXCEPT !.Data = JSONDoc("object", c1.Data.Default, rest.Data.Files)]}

\* what a call returned
CallReturn(op, found, err, val, removed, t) ==
    [op |-> op, found |-> found, err |-> err, val |-> val, removed |-> removed,
     at |-> t]

\* a process between two calls
IdleProc(calls, ret) ==
    [op |-> "idle", pc |-> "idle", entry |-> EmptyFile, orphan |-> FALSE,
     calls |-> calls, ret |-> ret]

Returned(p, r) == IdleProc(procs[p].calls, <<r>>)

InitShare ==
    /\ goos = "unix"
    /\ now = 0
    /\ mgr = NewManager(TRUE, DefaultTTL)
    /\ \/ metadataDir = <<>> /\ writes = {}
       \/ /\ metadataDir = [f \in {SharePath} |-> EarlierEntry]
          /\ writes = {EarlierEntry}
    /\ procs = [p \in Procs |-> IdleProc(0, <<>>)]
    /\ lastCall = NoCall
    /\ lastGet = NoGet
    /\ lastSet = <<>>
    /\ ops = 0
    /\ tampers = 0
    /\ lastSweep = <<>>
    /\ lastPkg = [stored |-> <<>>, get |-> <<>>]
    /\ sortIn = <<>>
    /\ sortOut = <<>>
    /\ sortDone = FALSE
    /\ cmd = <<>>
    /\ IdleList
    /\ IdleKey
    /\ IdleBoot
    /\ IdleFilter
    /\ IdleTree
    /\ IdleSync

\* what the steps of the two processes leave alone
OthersShare ==
    <<goos, varsFilter, varsTree, varsSync, sortIn, sortOut, sortDone, cmd,
      varsList, varsKey, varsBoot, now, mgr, lastCall, lastGet, lastSet, ops,
      tampers, lastSweep, lastPkg>>

\* process p goes on as rec; nothing on disk changes
Goes(p, rec) ==
    /\ procs' = [procs EXCEPT ![p] = rec]
    /\ UNCHANGED <<metadataDir, writes>>
    /\ UNCHANGED OthersShare

\* os.Remove by p: the name is gone, and a process that holds the file open
\* goes on with a file without a name
Unlinks(p, rec) ==
    /\ metadataDir' = removeFile(metadataDir, SharePath)
    /\ procs' = [q \in Procs |->
                    IF q = p THEN rec
                    ELSE [procs[q] EXCEPT
                             !.orphan = procs[q].orphan
                                           \/ procs[q].pc \in {"write", "readmore"}]]
    /\ UNCHANGED writes
    /\ UNCHANGED OthersShare

\* a process calls Get, Set or ClearExpired, or an adapter (Get, and a
\* request and Set after a miss)
Begin(p, op) ==
    /\ procs[p].op = "idle"
    /\ procs[1].calls + procs[2].calls < MaxCalls
    /\ Goes(p, [op |-> op,
                pc |-> CASE op \in {"get", "fetch"} -> "stat"
                         [] op = "set" -> "enter"
                         [] op = "sweep" -> "readdir",
                entry |-> EmptyFile, orphan |-> FALSE,
                calls |-> procs[p].calls + 1, ret |-> <<>>])

\* Get found nothing to return: Get returns, or the adapter goes on to its
\* request, ignoring the error
afterMiss(p, err) ==
    IF procs[p].op = "fetch" THEN [procs[p] EXCEPT !.pc = "enter"]
    ELSE Returned(p, CallReturn("get", FALSE, err, ZeroResponse, 0, now))

\* Get: os.Stat
GetStat(p) ==
    /\ procs[p].pc = "stat"
    /\ Goes(p, IF SharePath \notin DOMAIN metadataDir THEN afterMiss(p, NoErr)
               ELSE [procs[p] EXCEPT !.pc = "read"])

\* what Get and ClearExpired do with the bytes read: the process after the
\* read of content c
afterRead(p, c) ==
    IF c.kind # "entry"
    THEN afterMiss(p, <<"failed to unmarshal cache entry">>)
    ELSE IF expired(c, mgr, now) THEN [procs[p] EXCEPT !.pc = "remove"]
    ELSE IF jsonUnmarshal(c.Data, ZeroResponse).err
    THEN afterMiss(p, <<"failed to unmarshal cached data">>)
    ELSE Returned(p, CallReturn(procs[p].op, TRUE, NoErr,
                         jsonUnmarshal(c.Data, ZeroResponse).val, 0, now))

\* Get: os.ReadFile, the two json.Unmarshal and the test of the age; the
\* first read returns the file, or no more than the head of a long file
GetRead(p) ==
    /\ procs[p].pc = "read"
    /\ IF SharePath \notin DOMAIN metadataDir
       THEN Goes(p, afterMiss(p, <<"failed to read cache file">>))
       ELSE \/ Goes(p, afterRead(p, metadataDir[SharePath]))
            \/ /\ bytesOf(metadataDir[SharePath]) = 2
               /\ Goes(p, [procs[p] EXCEPT !.pc = "readmore", !.orphan = FALSE,
                                           !.entry = metadataDir[SharePath]])

\* Get: the next read of os.ReadFile, and what Get does with the bytes
GetReadMore(p) ==
    /\ procs[p].pc = "readmore"
    /\ \E c \in spliced(procs[p].entry,
                         IF procs[p].orphan THEN procs[p].entry
                         ELSE metadataDir[SharePath]) :
          Goes(p, afterRead(p, c))

\* Get: os.Remove of the entry found expired, whatever the file holds now
GetRemove(p) ==
    /\ procs[p].pc = "remove"
    /\ Unlinks(p, afterMiss(p, NoErr))

\* Set: the entry is made with time.Now(); for an adapter, after its request
SetEnter(p) ==
    /\ procs[p].pc = "enter"
    /\ procs' = [procs EXCEPT ![p].pc = "open",
                              ![p].entry = Entry(ShareKey, jsonMarshal(ValueOf(p)),
                                                 now, mgr.ttl)]
    /\ writes' = writes \cup {Entry(ShareKey, jsonMarshal(ValueOf(p)), now, mgr.ttl)}
    /\ UNCHANGED metadataDir
    /\ UNCHANGED OthersShare

\* Set: os.WriteFile opens with O_CREATE and O_TRUNC
SetOpen(p) ==
    /\ procs[p].pc = "open"
    /\ metadataDir' = writeFile(metadataDir, SharePath, EmptyFile)
    /\ procs' = [procs EXCEPT ![p].pc = "write", ![p].orphan = FALSE]
    /\ UNCHANGED writes
    /\ UNCHANGED OthersShare

\* Set: os.WriteFile writes the entry at offset 0 and closes
SetWrite(p) ==
    /\ procs[p].pc = "write"
    /\ metadataDir' =
          IF procs[p].orphan THEN metadataDir
          ELSE writeFile(metadataDir, SharePath,
                         landed(metadataDir[SharePath], procs[p].entry))
    /\ procs' = [procs EXCEPT
                    ![p] = Returned(p, CallReturn(procs[p].op, FALSE, NoErr,
                                           ValueOf(p), 0, now))]
    /\ UNCHANGED writes
    /\ UNCHANGED OthersShare

\* ClearExpired: os.ReadDir
SweepList(p) ==
    /\ procs[p].pc = "readdir"
    /\ Goes(p, IF SharePath \notin DOMAIN metadataDir
               THEN Returned(p, CallReturn("sweep", FALSE, NoErr, ZeroResponse, 0, now))
               ELSE [procs[p] EXCEPT !.pc = "sweepread"])

\* ClearExpired: os.ReadFile, json.Unmarshal and the test of the age; a
\* file that cannot be read or parsed is passed over
SweepRead(p) ==
    /\ procs[p].pc = "sweepread"
    /\ Goes(p, IF /\ SharePath \in DOMAIN metadataDir
                  /\ metadataDir[SharePath].kind = "entry"
                  /\ expired(metadataDir[SharePath], mgr, now)
               THEN [procs[p] EXCEPT !.pc = "sweepremove"]
               ELSE Returned(p, CallReturn("sweep", FALSE, NoErr, ZeroResponse, 0, now)))

\* ClearExpired: os.Remove, counted when it succeeds
SweepRemove(p) ==
    /\ procs[p].pc = "sweepremove"
    /\ Unlinks(p, Returned(p, CallReturn("sweep", FALSE, NoErr, ZeroResponse,
                                  IF SharePath \in DOMAIN metadataDir THEN 1 ELSE 0,
                                  now)))

NextShare ==
    \/ Tick
    \/ \E p \in Procs, op \in {"get", "set", "sweep", "fetch"} : Begin(p, op)
    \/ \E p \in Procs : GetStat(p)
    \/ \E p \in Procs : GetRead(p)
    \/ \E p \in Procs : GetReadMore(p)
    \/ \E p \in Procs : GetRemove(p)
    \/ \E p \in Procs : SetEnter(p)
    \/ \E p \in Procs : SetOpen(p)
    \/ \E p \in Procs : SetWrite(p)
    \/ \E p \in Procs : SweepList(p)
    \/ \E p \in Procs : SweepRead(p)
    \/ \E p \in Procs : SweepRemove(p)

SpecShare == InitShare /\ [][NextShare]_vars

(***************************************************************************)
(* Claims about filterFiles                                                *)
(***************************************************************************)
\* the files a filter list keeps, stated on the characters of path and pattern
Kept(f, patterns) ==
    \E j \in DOMAIN patterns :
        \/ f.Path = patterns[j]
        \/ /\ Len(patterns[j]) <= Len(f.Path)
           /\ \A k \in 1..Len(patterns[j]) : f.Path[k] = patterns[j][k]

\* C5: the filter keeps exactly the files whose path equals a pattern or
\* begins with one, in input order and each at most once; with an empty
\* filter list the planner keeps the adapter's whole list.
C5_FilterMatching ==
    filterDone =>
        filterOut = IF filterIn.patterns = <<>>
                    THEN filterIn.files
                    ELSE SelectSeq(filterIn.files,
                                   LAMBDA f : Kept(f, filterIn.patterns))

\* pattern "dist/" on dist/a, dist/b, src/c keeps the two dist entries
C5_Witness ==
    /\ filterDone
    /\ filterIn.patterns = << <<"d", "/">> >>
    /\ filterIn.files = <<FilterFile(<<"d", "/", "a">>),
                          FilterFile(<<"d", "/", "b">>),
                          FilterFile(<<"s", "/", "c">>)>>
    /\ filterOut = <<FilterFile(<<"d", "/", "a">>), FilterFile(<<"d", "/", "b">>)>>

(***************************************************************************)
(* Claims about collectJsdelivrFiles                                       *)
(***************************************************************************)
RECURSIVE slashJoin(_, _)
slashJoin(names, i) ==
    IF i > Len(names) THEN <<>>
    ELSE (IF i > 1 THEN <<"/">> ELSE <<>>) \o names[i] \o slashJoin(names, i + 1)

\* one entry per "file" node, its path the ancestors' names and its own
\* joined by '/'
RECURSIVE ExpectedEntries(_, _)
ExpectedEntries(nodes, ancestors) ==
    IF nodes = <<>> THEN <<>>
    ELSE LET f    == Head(nodes)
             path == slashJoin(Append(ancestors, f.Name), 1)
         IN  (IF f.Type = "file"
              THEN <<CDNFile(path, JsdelivrURL(LibJ, Ver1, path), f.Size)>>
              ELSE ExpectedEntries(f.Files, Append(ancestors, f.Name)))
             \o ExpectedEntries(Tail(nodes), ancestors)

Count(e, s) == Cardinality({i \in DOMAIN s : s[i] = e})

SameEntries(s, t) ==
    /\ Len(s) = Len(t)
    /\ \A i \in DOMAIN s : Count(s[i], s) = Count(s[i], t)

\* C4: the flattened list holds exactly one entry per "file" node at any
\* depth and none for directories, each with the '/'-joined path, the node's
\* size and the URL https://cdn.jsdelivr.net/npm/{library}@{version}/{path}.
C4_TreeFlattening ==
    treeDone => SameEntries(treeOut, ExpectedEntries(treeIn, <<>>))

(***************************************************************************)
(* Claims about the planner                                                *)
(***************************************************************************)
\* the provider the planner resolves for a manifest entry
ResolvedCDN(lib) ==
    LET c == GetLibraryCDN(config, config.Libraries[lib])
    IN  IF c = "" THEN CDNUnpkg ELSE c

\* the adapter's file entries of a manifest entry that survive its filter
Surviving(lib) ==
    selectFiles(fetchFileList(lib, config.Libraries[lib].Version,
                              ResolvedCDN(lib)).files,
                config.Libraries[lib].Files)

\* the entry's destination directory joined with the file's relative path
LocalDestination(lib, f) ==
    filepathJoin(GetLibraryDestination(config, lib, config.Libraries[lib]).path,
                 f.Path)

NothingAt(path) == path \notin DOMAIN fsFiles /\ path \notin fsDirs

TasksFor(lib, f) ==
    {i \in DOMAIN plan.tasks : /\ plan.tasks[i].LibraryName = lib
                               /\ plan.tasks[i].FilePath = f.Path}

\* C1: after a plan made without force whose every task was downloaded
\* successfully, the next plan of the same manifest and the same adapter
\* file lists, again without force, is empty.
C1_PlannerIdempotent ==
    (pc = "planned" /\ runs >= 2 /\ lastRun.full /\ ~lastRun.force /\ ~syncForce)
        => (plan.tasks = <<>> /\ plan.err = NoErr)

\* a run that downloaded at least one file, followed by an empty plan
C1_Witness ==
    /\ pc = "planned"
    /\ runs >= 2
    /\ lastRun.full /\ lastRun.count > 0
    /\ ~lastRun.force /\ ~syncForce
    /\ plan.tasks = <<>>

\* C2: the plan holds a task for a surviving file of a manifest entry if and
\* only if force is set or nothing exists at the entry's destination joined
\* with the file's path, and the task is bound for that path.
C2_TaskIffForcedOrAbsent ==
    (pc = "planned" /\ plan.err = NoErr) =>
        \A lib \in DOMAIN config.Libraries :
            \A k \in DOMAIN Surviving(lib) :
                LET f == Surviving(lib)[k] IN
                /\ (TasksFor(lib, f) # {})
                       <=> (syncForce \/ NothingAt(LocalDestination(lib, f)))
                /\ \A i \in TasksFor(lib, f) :
                       plan.tasks[i].DestPath = LocalDestination(lib, f)

\* without force, one surviving file is on disk and gets no task while
\* another is absent and gets one
C2_Witness ==
    /\ pc = "planned" /\ plan.err = NoErr /\ ~syncForce
    /\ \E lib \in DOMAIN config.Libraries :
          \E k1, k2 \in DOMAIN Surviving(lib) :
              /\ ~NothingAt(LocalDestination(lib, Surviving(lib)[k1]))
              /\ TasksFor(lib, Surviving(lib)[k1]) = {}
              /\ NothingAt(LocalDestination(lib, Surviving(lib)[k2]))
              /\ TasksFor(lib, Surviving(lib)[k2]) # {}

\* a manifest entry that names an unknown provider or has no destination
InvalidEntry(lib) ==
    \/ ~IsValidCDN(ResolvedCDN(lib))
    \/ GetLibraryDestination(config, lib, config.Libraries[lib]).err # NoErr

\* C19: when some entry of the manifest is invalid, the planner returns an
\* error and has called no adapter, for that entry or for any other.
C19_ValidationBeforeNetwork ==
    (pc = "planned" /\ \E lib \in DOMAIN config.Libraries : InvalidEntry(lib))
        => (plan.err # NoErr /\ plan.fetched = <<>>)

\* C16: every file entry that fetchFileList's conversion makes of an
\* adapter's answer, of any of the three providers, has a path that does not
\* begin with a path separator.
C16_PathsAreRelative ==
    listDone =>
        \A i \in DOMAIN listOut.files :
            LET path == listOut.files[i].Path
            IN  Len(path) > 0 => ~IsPathSeparator(path[1])

\* C17: the tasks planned for a library hold at most one task per remote
\* path, whatever the filter list and whatever the adapter listed.
C17_OneTaskPerRemotePath ==
    listDone =>
        \A i, j \in DOMAIN listOut.tasks :
            (/\ listOut.tasks[i].LibraryName = listOut.tasks[j].LibraryName
             /\ listOut.tasks[i].FilePath = listOut.tasks[j].FilePath) => i = j

\* C15: when the plan succeeded, every entry of unpkg's flat file list, of
\* whatever type string, that the library's filter keeps and that is forced
\* or absent locally has a task with the entry's path less its leading "/",
\* the entry's size and the URL built from library, version and path.
C15_UnpkgEveryListedFile ==
    (pc = "planned" /\ plan.err = NoErr) =>
        \A lib \in DOMAIN config.Libraries :
            ResolvedCDN(lib) = CDNUnpkg =>
                LET version == config.Libraries[lib].Version
                    listed  == FetchUnpkgMetaResult(lib, version).Files
                IN  \A k \in DOMAIN listed :
                        LET f == CDNFile(TrimPrefix(listed[k].Path, <<"/">>),
                                         UnpkgURL(lib, version, listed[k].Path),
                                         listed[k].Size)
                        IN  (/\ \/ config.Libraries[lib].Files = <<>>
                                \/ Kept(f, config.Libraries[lib].Files)
                             /\ syncForce \/ NothingAt(LocalDestination(lib, f)))
                            => \E i \in TasksFor(lib, f) :
                                   /\ plan.tasks[i].URL = f.URL
                                   /\ plan.tasks[i].Size = f.Size

(***************************************************************************)
(* Claims about the executor                                               *)
(***************************************************************************)
\* the transfers between http.Get and the end of io.Copy
InFlight == {d \in BagToSet(dl) : d.phase \in {"requested", "writing"}}

\* C6: transfers start in list order, each only after the one before it
\* completed successfully, never twice, and at most one is in flight.
C6_StrictlySequential ==
    /\ \A k \in DOMAIN started :
          /\ started[k] = k - 1
          /\ \A j \in 0..(started[k] - 1) : j \in okDownloads
    /\ \A d \in InFlight : CopiesIn(d, dl) = 1
    /\ Cardinality(InFlight) <= 1

\* the second task's transfer is under way after the first has completed
C6_Witness ==
    /\ pc = "running"
    /\ Len(started) >= 2
    /\ 0 \in okDownloads
    /\ InFlight # {}

\* C7: a failed download ends the run with the error that wraps the failure
\* and names the failed file, and no transfer starts after the failure.
C7_FailureEndsInError ==
    (pc = "done" /\ failed # <<>>) =>
        /\ outcome.err = downloadError(plan.tasks[failed[1].index + 1],
                                       failed[1].cause)
        /\ Len(failed) = 1
        /\ \A k \in DOMAIN started : started[k] <= failed[1].index

\* the transfer of task index i ended by itself with an error
FailedBy(i) == \E k \in DOMAIN failed : failed[k].index = i

\* C21: when a run in which ctrl+c was pressed has ended, no task after the
\* one in transfer was started, and every transfer that was started and did
\* not fail by itself has run to completion and left the complete file at
\* its destination.
C21_CooperativeCancel ==
    (pc = "done" /\ keys > 0) =>
        /\ \A k \in DOMAIN started : started[k] = k - 1
        /\ \A k \in DOMAIN started :
              ~FailedBy(started[k]) =>
                  /\ started[k] \in okDownloads
                  /\ downloadDest(m.tasks[started[k] + 1]) \in DOMAIN fsFiles
                  /\ fsFiles[downloadDest(m.tasks[started[k] + 1])]
                         = m.tasks[started[k] + 1].URL

\* the package-tier key of a task
PackageKey(task) ==
    getPackageFilePath(task.CDN, task.LibraryName, task.Version, task.FilePath)

\* C8: no request is issued for a task whose key the package tier holds,
\* and every file fetched from the network is stored in the package tier.
C8_ThroughPackageTier ==
    /\ \A k \in DOMAIN started :
          PackageKey(m.tasks[started[k] + 1]) \notin DOMAIN PackagesBefore
    /\ \A i \in okDownloads :
          PackageKey(m.tasks[i + 1]) \in DOMAIN pkgTier

(***************************************************************************)
(* Claims about the metadata tier                                          *)
(***************************************************************************)
\* C3: with the cache enabled, a Get after a Set of the same key hits, with
\* the value that was set, if and only if the time since that Set is at
\* most the ttl the writing manager stamped on the entry.
C3_MetadataTTL ==
    \A i \in DOMAIN lastGet :
        LET g == lastGet[i] IN
        (g.enabled /\ g.written # <<>>) =>
            LET w == g.written[1] IN
            /\ g.found <=> (g.at - w.at <= w.ttl)
            /\ g.found => (g.val = w.val /\ g.err = NoErr)

\* an entry written with a ttl of 24 hours is read 12 hours later
C3_Witness ==
    /\ lastGet # NoGet
    /\ lastGet[1].enabled /\ lastGet[1].written # <<>>
    /\ lastGet[1].written[1].ttl = DefaultTTL
    /\ 2 * (lastGet[1].at - lastGet[1].written[1].at) = DefaultTTL
    /\ lastGet[1].found
    /\ lastGet[1].val = Response("x", "f")

\* a direct Manager.Get, or a Manager.ClearExpired, is made in this step
GetStep == ops' = ops + 1 /\ lastGet' # NoGet /\ lastGet'[1].call = ops'

SweepStep == ops' = ops + 1 /\ lastSweep' # <<>> /\ lastSweep'[1].call = ops'

\* C11: with the cache enabled, a Get of a key whose entry is past its expiry
\* reports a miss and removes the file, so that Stats counts one entry and
\* one expired entry less and a ClearExpired would remove one file less; a
\* Get hits only a file that is there, a file appears only by a Set of its
\* key made in the same step, and a file disappears only when it is expired
\* and a Get of its key or a ClearExpired is made in that step.
C11_LazyExpiry ==
    [][/\ (GetStep /\ mgr.enabled
             /\ getFilePath(lastGet'[1].key) \in expiredFiles(mgr, metadataDir, now)) =>
            LET g == lastGet'[1]
                before == Stats(mgr, metadataDir, now)
                after == Stats(mgr, metadataDir', now)
            IN
            /\ ~g.found /\ g.err = NoErr
            /\ getFilePath(g.key) \notin DOMAIN metadataDir'
            /\ after.MetadataEntries = before.MetadataEntries - 1
            /\ after.ExpiredEntries = before.ExpiredEntries - 1
            /\ ClearExpired(mgr, metadataDir', now).removed
                  = ClearExpired(mgr, metadataDir, now).removed - 1
       /\ (GetStep /\ lastGet'[1].found) =>
            getFilePath(lastGet'[1].key) \in DOMAIN metadataDir
       /\ \A p \in DOMAIN metadataDir' \ DOMAIN metadataDir :
            \E key \in DOMAIN lastSet' :
                /\ p = getFilePath(key)
                /\ lastSet'[key].at = now
                /\ metadataDir'[p] = Entry(key, jsonMarshal(lastSet'[key].val),
                                           now, mgr.ttl)
       /\ \A p \in DOMAIN metadataDir \ DOMAIN metadataDir' :
            /\ p \in expiredFiles(mgr, metadataDir, now)
            /\ \/ GetStep /\ p = getFilePath(lastGet'[1].key)
               \/ SweepStep]_vars

\* a Get has just removed the expired entry of its key, while the expired
\* entry of the other key is still there and counted
C11_Witness ==
    /\ lastGet # NoGet /\ lastGet[1].call = ops
    /\ lastGet[1].enabled /\ lastGet[1].written # <<>>
    /\ lastGet[1].at - lastGet[1].written[1].at > lastGet[1].written[1].ttl
    /\ ~lastGet[1].found
    /\ getFilePath(lastGet[1].key) \notin DOMAIN metadataDir
    /\ Stats(mgr, metadataDir, now).MetadataEntries = 1
    /\ Stats(mgr, metadataDir, now).ExpiredEntries = 1

\* the metadata keys whose entry is older than the ttl stamped on it
OverAge(store, t) ==
    {p \in DOMAIN store :
        store[p].kind = "entry" /\ t - store[p].Timestamp > store[p].TTL}

Precedence(str) ==
    CASE str = V100alpha -> 1
      [] str = V100beta -> 2
      [] str \in {V100, V10} -> 3
      [] str = V200 -> 4
      [] str = V1000 -> 5
      [] OTHER -> 0

\* the returned strings are the well-formed input strings, each as often as
\* it was handed in
SameVersions ==
    /\ \A i \in DOMAIN sortOut : Precedence(sortOut[i]) > 0
    /\ \A str \in VersionStrings :
          Precedence(str) > 0 =>
             Cardinality({i \in DOMAIN sortOut : sortOut[i] = str})
               = Cardinality({i \in DOMAIN sortIn : sortIn[i] = str})

CmdStep == cmd' # <<>> /\ (cmd = <<>> \/ cmd'[1].turn # cmd[1].turn)

\* the precedence of providers: the library's own, the manifest's default,
\* unpkg
ExpectedCDN(fc, lib) ==
    IF fc.Libraries[lib].CDN # "" THEN fc.Libraries[lib].CDN
    ELSE IF fc.CDN # "" THEN fc.CDN
    ELSE CDNUnpkg

\* C14: an upgrade of a library of the manifest, and every task the sync
\* planner makes for a library, use the provider that this precedence gives
\* for the library's entry.
C14_ProviderPrecedence ==
    [][/\ (CmdStep /\ cmd'[1].name = "upgrade"
             /\ cmd'[1].lib \in DOMAIN config.Libraries) =>
            cmd'[1].cdn = ExpectedCDN(config, cmd'[1].lib)
       /\ (pc = "invoked" /\ pc' = "planned") =>
            \A i \in DOMAIN plan'.tasks :
                plan'.tasks[i].CDN = ExpectedCDN(config, plan'.tasks[i].LibraryName)]_vars

\* the file at a path was downloaded for another version of the library
\* than the manifest now names
Outdated(lib, path) ==
    /\ path \in DOMAIN fsFiles
    /\ fsFiles[path] # lib \o config.Libraries[lib].Version

\* C18: a plan made without force holds a task for every surviving file of
\* a manifest entry whose local copy belongs to another version than the
\* one the manifest names, as after an upgrade of the entry.
C18_OutdatedFilesPlanned ==
    (pc = "planned" /\ plan.err = NoErr /\ ~syncForce) =>
        \A lib \in DOMAIN config.Libraries :
            \A k \in DOMAIN Surviving(lib) :
                LET f == Surviving(lib)[k] IN
                Outdated(lib, LocalDestination(lib, f)) => TasksFor(lib, f) # {}

\* the provider's version list holds the string
Listed(cdn, packageName, version) ==
    \E i \in DOMAIN ProviderVersions(cdn, packageName) :
        ProviderVersions(cdn, packageName)[i] = version

\* the command got as far as the provider's version list: the library
\* passed the manifest test, the provider is a supported one and answered
ListFetched(c) ==
    /\ c.err \notin {<<"already exists in config">>, <<"not found in config">>}
    /\ IsValidCDN(c.cdn)
    /\ c.requests = 1
    /\ ~(Len(c.err) = 2 /\ c.err[1] = "failed to fetch versions")

\* C20: an add or upgrade that names a version and obtained the provider's
\* version list succeeds if and only if the list holds that version string;
\* otherwise it fails with "version not found", which no transport failure
\* yields, and leaves the manifest as it was.
C20_VersionValidation ==
    [][(CmdStep /\ cmd'[1].version # <<>> /\ ListFetched(cmd'[1])) =>
          LET c == cmd'[1] IN
          /\ (c.err = NoErr) <=> Listed(c.cdn, c.lib, c.version)
          /\ ~Listed(c.cdn, c.lib, c.version) =>
                (c.err = <<"version not found">> /\ config' = config)]_vars

\* C27: an add never leaves a provider name in the library's entry that is
\* not a supported one: the version is validated at a supported provider,
\* the entry written names a supported provider or none, and the file list
\* of the entry is not refused as of an unsupported CDN when it is synced.
C27_InvalidCDNIgnored ==
    [][(CmdStep /\ cmd'[1].name = "add" /\ cmd'[1].err = NoErr) =>
          LET entry == config'.Libraries[cmd'[1].lib] IN
          /\ IsValidCDN(cmd'[1].cdn)
          /\ entry.CDN = "" \/ IsValidCDN(entry.CDN)
          /\ fetchFileList(cmd'[1].lib, entry.Version,
                           IF GetLibraryCDN(config', entry) = "" THEN CDNUnpkg
                           ELSE GetLibraryCDN(config', entry)).err
                # <<"unsupported CDN">>]_vars

(***************************************************************************)
(* Claims about the cached adapters                                        *)
(***************************************************************************)
\* the record of key in store is an Entry, not expired at t, whose data
\* decodes into a response
Readable(store, key, t) ==
    /\ getFilePath(key) \in DOMAIN store
    /\ LET e == store[getFilePath(key)] IN
       /\ e.kind = "entry"
       /\ t - e.Timestamp <= e.TTL
       /\ e.Data.kind = "object"
       /\ e.Data.Default # "mistyped" /\ e.Data.Files # "mistyped"

\* the record of key in store is there and unexpired but is no Entry or
\* holds data that does not decode
Corrupt(store, key, t) ==
    /\ getFilePath(key) \in DOMAIN store
    /\ ~Readable(store, key, t)
    /\ LET e == store[getFilePath(key)] IN
       e.kind = "entry" => t - e.Timestamp <= e.TTL

\* the response a JSON object stands for when read on its own
Plain(doc) ==
    Response(IF doc.Default = "null" THEN "zero" ELSE doc.Default,
             IF doc.Files = "null" THEN "zero" ELSE doc.Files)

Decodes(answer) ==
    /\ answer.kind = "ok"
    /\ answer.body.kind = "object"
    /\ answer.body.Default # "mistyped" /\ answer.body.Files # "mistyped"

\* an adapter call is made in this step
FetchStep == lastCall' # NoCall /\ (lastCall = NoCall \/ lastCall'[1].turn # lastCall[1].turn)

\* what one call does, cache enabled: a readable record is returned without
\* a request; otherwise one GET is issued and a record is written under the
\* key exactly when the answer is a 200 that decodes; no other key changes
PerCall(c, before, after) ==
    LET path == getFilePath(c.key) IN
    /\ Readable(before, c.key, c.at) =>
          /\ c.requests = 0 /\ c.err = NoErr
          /\ c.val = Plain(before[path].Data)
          /\ after = before
    /\ ~Readable(before, c.key, c.at) =>
          /\ c.requests = 1
          /\ (path \in DOMAIN after /\ (path \in DOMAIN before => after[path] # before[path]))
                <=> Decodes(c.answer)
          /\ Decodes(c.answer) <=> c.err = NoErr
    /\ \A p \in (DOMAIN before \cup DOMAIN after) \ {path} :
          p \in DOMAIN before /\ p \in DOMAIN after /\ after[p] = before[p]

\* the call follows another call for the same key, made no longer ago than
\* the ttl, with nothing else touching the cache in between
Repeats(c, prev) ==
    /\ prev.undisturbed
    /\ prev.key = c.key
    /\ c.at - prev.at <= mgr.ttl

\* C9 as stated: per call as above, and two identical calls within the ttl
\* issue at most one request, and a failed fetch leaves the cache unchanged.
C9_AdapterCaching ==
    [][(FetchStep /\ mgr.enabled) =>
          LET c == lastCall'[1] IN
          /\ PerCall(c, metadataDir, metadataDir')
          /\ (lastCall # NoCall /\ Repeats(c, lastCall[1]))
                => lastCall[1].requests + c.requests <= 1
          /\ c.err # NoErr => metadataDir' = metadataDir]_vars

\* C9, amended: per call as above; two identical calls within the ttl issue
\* at most one request when the first of them returned a result; a failed
\* fetch writes no record, and removes none but an expired record of its key.
C9_AdapterCachingAmended ==
    [][(FetchStep /\ mgr.enabled) =>
          LET c == lastCall'[1]
              path == getFilePath(c.key)
          IN
          /\ PerCall(c, metadataDir, metadataDir')
          /\ (lastCall # NoCall /\ Repeats(c, lastCall[1]) /\ lastCall[1].err = NoErr)
                => lastCall[1].requests + c.requests <= 1
          /\ c.err # NoErr =>
                /\ \A p \in DOMAIN metadataDir' :
                      p \in DOMAIN metadataDir /\ metadataDir'[p] = metadataDir[p]
                /\ \A p \in DOMAIN metadataDir \ DOMAIN metadataDir' :
                      /\ p = path
                      /\ metadataDir[p].kind = "entry"
                      /\ c.at - metadataDir[p].Timestamp > metadataDir[p].TTL]_vars

\* a second call for the key, within the ttl of a first that fetched and
\* stored, is answered from the cache
C9_Witness ==
    /\ lastCall # NoCall
    /\ mgr.enabled
    /\ lastCall[1].turn = 1
    /\ lastCall[1].undisturbed
    /\ lastCall[1].requests = 0 /\ lastCall[1].err = NoErr
    /\ Readable(metadataDir, lastCall[1].key, now)
    /\ metadataDir[getFilePath(lastCall[1].key)].Timestamp < lastCall[1].at

\* C10: a call that finds a corrupt record and gets a good answer returns
\* the live result without an error and leaves a record that the next read
\* of the key hits.
C10_CorruptIsMiss ==
    [][(FetchStep /\ mgr.enabled /\ Corrupt(metadataDir, lastCall'[1].key, now)
          /\ Decodes(lastCall'[1].answer)) =>
          LET c == lastCall'[1] IN
          /\ c.requests = 1 /\ c.err = NoErr
          /\ c.val = Plain(c.answer.body)
          /\ Readable(metadataDir', c.key, now)
          /\ Plain(metadataDir'[getFilePath(c.key)].Data) = c.val]_vars

(***************************************************************************)
(* Claims about cache keys                                                 *)
(***************************************************************************)

\* C24: two different tuples of components (provider, kind of operation,
\* library, version or none) have different cache keys and a tuple has one
\* key, so a value stored by Set for one tuple is not found by a Get for a
\* different tuple.
C24_KeyIsolation ==
    keyDone =>
        /\ keyIn.set = keyIn.get => keyOut[1].setKey = keyOut[1].getKey
        /\ keyIn.set # keyIn.get =>
              /\ keyOut[1].setKey # keyOut[1].getKey
              /\ ~keyOut[1].got.found

(***************************************************************************)
(* Claims about the cache when it is disabled                              *)
(***************************************************************************)

\* C25: with caching disabled (the manager made disabled, or no manager made
\* because the cache could not be set up), a Get reports a miss without an
\* error, nothing changes in the stored cache, and a call of an adapter
\* ends after one live request; no step ends the process.
C25_DisabledPassThrough ==
    [][(~crashed /\ (mgrNil \/ ~mgr.enabled)) =>
          /\ ~crashed'
          /\ metadataDir' = metadataDir
          /\ GetStep => (~lastGet'[1].found /\ lastGet'[1].err = NoErr)
          /\ FetchStep => lastCall'[1].requests = 1]_vars

(***************************************************************************)
(* Claims about planning and the destination tree                          *)
(***************************************************************************)

\* C26: planning has no effect on the local library files: the step that
\* builds the download tasks, and every step of a dry-run sync from its
\* invocation to its end, leaves the files and directories of the
\* destination tree as they were.
C26_PlanningLeavesTree ==
    [][(pc = "invoked" \/ syncDryRun') =>
          (fsFiles' = fsFiles /\ fsDirs' = fsDirs)]_vars

\* a dry run has listed files to download for a project that has files of
\* an earlier sync on disk
C26_Witness ==
    /\ pc = "done"
    /\ syncDryRun
    /\ outcome.printed = "Dry run"
    /\ outcome.count > 0
    /\ DOMAIN fsFiles # {}
    /\ runs = 2

(***************************************************************************)
(* Claims about what a run leaves behind and reports                       *)
(***************************************************************************)

\* the file at the path holds the beginning of a body and not all of it
Partial(path) == path \in DOMAIN fsFiles /\ Head(fsFiles[path]) = "partial"

\* C28: when a run without force has ended, no task whose transfer was
\* started and did not end in success has a file at its destination; and a
\* plan made without force holds a task for every file of the manifest
\* whose local copy is a partly written one.
C28_FailedLeavesNoFile ==
    /\ (pc = "done" /\ ~syncForce) =>
          \A k \in DOMAIN started :
              started[k] \notin okDownloads =>
                  downloadDest(m.tasks[started[k] + 1]) \notin DOMAIN fsFiles
    /\ (pc = "planned" /\ ~syncForce /\ plan.err = NoErr) =>
          \A lib \in DOMAIN config.Libraries :
              \A k \in DOMAIN Surviving(lib) :
                  Partial(LocalDestination(lib, Surviving(lib)[k])) =>
                      TasksFor(lib, Surviving(lib)[k]) # {}

\* C29: a run that reports "Sync complete" has downloaded every task of the
\* list successfully, and the count it reports is the number of tasks.
C29_CompleteMeansAllDownloaded ==
    (pc = "done" /\ outcome.printed = "Sync complete") =>
        /\ outcome.err = NoErr
        /\ outcome.count = Len(plan.tasks)
        /\ okDownloads = 0..(Len(plan.tasks) - 1)

(***************************************************************************)
(* Claims about two processes on one cache root                            *)
(***************************************************************************)

\* C30: whatever the interleaving of the two processes, a Get that finds
\* the key returns without error a whole value that a Set made for this key
\* no longer than its ttl before; a Get that does not find it leaves the
\* caller's result as it was; and a call of an adapter returns without an
\* error such a value of the cache or the value of its own request.
C30_RacesOnlyMiss ==
    \A p \in DOMAIN procs :
        procs[p].ret # <<>> =>
            LET r == procs[p].ret[1] IN
            /\ (r.op \in {"get", "fetch"} /\ r.found) =>
                  /\ r.err = NoErr
                  /\ \E w \in writes :
                        /\ w.Key = ShareKey
                        /\ jsonMarshal(r.val) = w.Data
                        /\ r.at - w.Timestamp <= w.TTL
            /\ (r.op = "get" /\ ~r.found) => r.val = ZeroResponse
            /\ r.op = "fetch" =>
                  /\ r.err = NoErr
                  /\ r.found \/ r.val = ValueOf(p)

=============================================================================
